---- MODULE Spec2Model ----
(***************************************************************************)
(* The analyzer adapters (flake8, pylint, radon), the feedback generator   *)
(* and the quality scorer of the PR review agent, with the orchestration   *)
(* of PRReviewAgent.review_pr.                                             *)
(*                                                                         *)
(* A Python str is a tuple of one-character strings, so that split, strip, *)
(* lower, int(), str() and substring tests are computed as Python computes *)
(* them.  A Python dict with literal keys is a record; a missing key is a  *)
(* field missing from the record's DOMAIN.                                 *)
(***************************************************************************)
EXTENDS Integers, Sequences, FiniteSets, TLC

\* ------------------------------------------------------------------ bounds
\* Longest changed-file sequence handed to one analyze call.
MaxFiles == 2
\* Longest changed-file sequence a whole review is run on.
MaxReviewFiles == 1
\* Most issues, over all analyzers, in an analysis_results map given to
\* generate_feedback directly.
MaxIssues == 3
\* Longest bucket list of a feedback given to _calculate_quality_score directly.
MaxBucket == 10

\* ------------------------------------------------------- Python str helpers
UPPER == <<"A","B","C","D","E","F","G","H","I","J","K","L","M","N","O","P","Q","R","S","T","U","V","W","X","Y","Z">>
LOWER == <<"a","b","c","d","e","f","g","h","i","j","k","l","m","n","o","p","q","r","s","t","u","v","w","x","y","z">>
DIGITS == <<"0","1","2","3","4","5","6","7","8","9">>
WHITESPACE == {" ", "\n", "\t"}

\* str.lower()
LowerOf == [c \in {UPPER[j] : j \in 1..Len(UPPER)} |->
               LOWER[CHOOSE j \in 1..Len(UPPER) : UPPER[j] = c]]

lower(s) ==
    [k \in 1..Len(s) |-> IF s[k] \in DOMAIN LowerOf THEN LowerOf[s[k]] ELSE s[k]]

\* keyword in message
contains(m, k) ==
    \E p \in 0..(Len(m) - Len(k)) : SubSeq(m, p + 1, p + Len(k)) = k

\* str.startswith(prefix)
startswith(s, p) == Len(p) <= Len(s) /\ SubSeq(s, 1, Len(p)) = p

RECURSIVE lstrip(_)
lstrip(s) == IF Len(s) > 0 /\ s[1] \in WHITESPACE THEN lstrip(Tail(s)) ELSE s

RECURSIVE rstrip(_)
rstrip(s) ==
    IF Len(s) > 0 /\ s[Len(s)] \in WHITESPACE
    THEN rstrip(SubSeq(s, 1, Len(s) - 1))
    ELSE s

\* str.strip()
strip(s) == rstrip(lstrip(s))

\* str.split(sep, maxsplit); maxsplit = -1 splits at every separator.
RECURSIVE split(_, _, _)
split(s, sep, maxsplit) ==
    IF maxsplit = 0 \/ ~(\E k \in 1..Len(s) : s[k] = sep)
    THEN <<s>>
    ELSE LET k == CHOOSE k \in 1..Len(s) :
                    s[k] = sep /\ \A j \in 1..(k - 1) : s[j] # sep
         IN  <<SubSeq(s, 1, k - 1)>> \o split(SubSeq(s, k + 1, Len(s)), sep, maxsplit - 1)

\* int(s): surrounding whitespace and one sign are accepted, then decimal digits.
int_unsigned(s) ==
    LET t == strip(s)
    IN  IF Len(t) > 0 /\ t[1] \in {"+", "-"} THEN Tail(t) ELSE t

int_ok(s) ==
    LET d == int_unsigned(s)
    IN  Len(d) > 0 /\ \A k \in 1..Len(d) : \E j \in 1..Len(DIGITS) : DIGITS[j] = d[k]

RECURSIVE digits_value(_)
digits_value(d) ==
    IF Len(d) = 0 THEN 0
    ELSE 10 * digits_value(SubSeq(d, 1, Len(d) - 1))
         + (CHOOSE j \in 1..Len(DIGITS) : DIGITS[j] = d[Len(d)]) - 1

int_value(s) ==
    LET t == strip(s)
    IN  IF Len(t) > 0 /\ t[1] = "-"
        THEN 0 - digits_value(int_unsigned(s))
        ELSE digits_value(int_unsigned(s))

\* str(n) of a non-negative int, as an f-string renders it.
RECURSIVE str(_)
str(n) ==
    IF n < 10 THEN <<DIGITS[n + 1]>>
    ELSE str(n \div 10) \o <<DIGITS[(n % 10) + 1]>>

\* repr(s) of a str without quotes in it.
repr(s) == <<"'">> \o s \o <<"'">>

\* ------------------------------------------------- the analyzers' local state
\* The locals of one analyze call that outlive a loop iteration: the issue
\* list and the counters (a counter an adapter does not have stays 0).
NoIssues ==
    [issues |-> <<>>, total_errors |-> 0, total_warnings |-> 0,
     total_infos |-> 0, total_complexity_issues |-> 0]

\* AppendIssue as it would be if every appended issue of severity 'error'
\* were counted as an error.
AppendIssue_counting_errors(st, issue) ==
    [st EXCEPT !.issues = Append(@, issue),
               !.total_errors = @ + IF issue.severity = <<"e","r","r","o","r">> THEN 1 ELSE 0]

\* issues.append(issue)
AppendIssue(st, issue) == [st EXCEPT !.issues = Append(@, issue)]

\* The outcome of running a block: the locals it leaves, and the exception
\* (with its str()) that left it, if one did.
Normal(st) == [st |-> st, raised |-> FALSE, msg |-> <<>>]
Raised(st, msg) == [st |-> st, raised |-> TRUE, msg |-> msg]

\* The dict every except clause and the stderr check append.
SyntheticIssue(filename, message) ==
    [file |-> filename, message |-> message, severity |-> <<"e","r","r","o","r">>]

\* --------------------------------------------------------------- flake8
Flake8_get_severity(code) ==
    IF startswith(code, <<"E">>) \/ startswith(code, <<"F">>) THEN <<"e","r","r","o","r">>
    ELSE IF startswith(code, <<"W">>) \/ startswith(code, <<"C">>) THEN <<"w","a","r","n","i","n","g">>
    ELSE <<"i","n","f","o">>

\* _is_error as it would be if only the E codes were errors.
Flake8_is_error_only_E(code) == startswith(code, <<"E">>)

Flake8_is_error(code) == startswith(code, <<"E">>) \/ startswith(code, <<"F">>)

\* str(e) of the ValueError int() raises.
ValueErrorMsg(s) == <<"i","n","v","a","l","i","d"," ","l","i","t","e","r","a","l"," ","f","o","r"," ","i","n","t","(",")"," ","w","i","t","h"," ","b","a","s","e"," ","1","0",":"," ">> \o repr(s)

\* The loop over the lines of stdout.  A line with fewer than four fields
\* is passed over; int(row) or int(col) that fails leaves the loop with the
\* findings of the earlier lines kept.
RECURSIVE Flake8ParseLines(_, _, _)
Flake8ParseLines(st, filename, lines) ==
    IF Len(lines) = 0 THEN Normal(st)
    ELSE LET line == Head(lines)
             parts == split(line, ":", 3)
         IN  IF Len(strip(line)) = 0 \/ Len(parts) < 4
             THEN Flake8ParseLines(st, filename, Tail(lines))
             ELSE IF ~int_ok(parts[1]) THEN Raised(st, ValueErrorMsg(parts[1]))
             ELSE IF ~int_ok(parts[2]) THEN Raised(st, ValueErrorMsg(parts[2]))
             ELSE LET code == parts[3]
                      issue == [file |-> filename,
                                line |-> int_value(parts[1]),
                                column |-> int_value(parts[2]),
                                code |-> code,
                                message |-> parts[4],
                                severity |-> Flake8_get_severity(code)]
                      st1 == AppendIssue(st, issue)
                      st2 == IF Flake8_is_error(code)
                             THEN [st1 EXCEPT !.total_errors = @ + 1]
                             ELSE [st1 EXCEPT !.total_warnings = @ + 1]
                  IN  Flake8ParseLines(st2, filename, Tail(lines))

\* The statements of the try block after subprocess.run returned.
Flake8Parse(st, filename, result) ==
    LET parsed == IF Len(result.stdout) > 0
                  THEN Flake8ParseLines(st, filename, split(strip(result.stdout), "\n", -1))
                  ELSE Normal(st)
    IN  IF parsed.raised THEN parsed
        ELSE IF Len(result.stderr) > 0
        THEN Normal(AppendIssue(parsed.st,
                 SyntheticIssue(filename, <<"F","l","a","k","e","8"," ","e","r","r","o","r",":"," ">> \o result.stderr)))
        ELSE parsed

\* try / except FileNotFoundError / except Exception of one file.
Flake8Try(st, filename, result) ==
    IF result.exc = "FileNotFoundError"
    THEN AppendIssue(st, SyntheticIssue(filename, <<"F","l","a","k","e","8"," ","n","o","t"," ","i","n","s","t","a","l","l","e","d"," ","o","r"," ","n","o","t"," ","i","n"," ","P","A","T","H">>))
    ELSE IF result.exc # "none"
    THEN AppendIssue(st, SyntheticIssue(filename, <<"E","r","r","o","r"," ","r","u","n","n","i","n","g"," ","F","l","a","k","e","8",":"," ">> \o result.msg))
    ELSE LET body == Flake8Parse(st, filename, result)
         IN  IF body.raised
             THEN AppendIssue(body.st,
                      SyntheticIssue(filename, <<"E","r","r","o","r"," ","r","u","n","n","i","n","g"," ","F","l","a","k","e","8",":"," ">> \o body.msg))
             ELSE body.st

\* ------------------------------------------------------------------ JSON
\* What json.loads returns is tagged with its Python type: a list
\* ("list", xs), a dict at top level ("dict", keys in order), a dict that is
\* an element of a list ("obj", d: its keys and values), a str ("str", s)
\* or an int ("num", n).
JList(xs) == [t |-> "list", xs |-> xs]
JDict(keys) == [t |-> "dict", keys |-> keys]
JObj(d) == [t |-> "obj", d |-> d]
JStr(s) == [t |-> "str", s |-> s]
JNum(n) == [t |-> "num", n |-> n]
JInvalid == [t |-> "invalid"]

\* The JSON documents the tools are let to print, each with its reading.
PY_ERROR == <<"[","{","\"","m","e","s","s","a","g","e","\"",":","\"","b","a","d","\"",",","\"","l","i","n","e","\"",":","3",",","\"","c","o","l","u","m","n","\"",":","0",",","\"","c","a","t","e","g","o","r","y","\"",":","\"","e","r","r","o","r","\"",",","\"","s","y","m","b","o","l","\"",":","\"","e","1","\"","}","]">>
PY_WARNING == <<"[","{","\"","m","e","s","s","a","g","e","\"",":","\"","s","l","o","w","\"",",","\"","l","i","n","e","\"",":","4",",","\"","c","o","l","u","m","n","\"",":","1",",","\"","c","a","t","e","g","o","r","y","\"",":","\"","w","a","r","n","i","n","g","\"",",","\"","s","y","m","b","o","l","\"",":","\"","w","1","\"","}","]">>
PY_CONVENTION == <<"[","{","\"","m","e","s","s","a","g","e","\"",":","\"","M","i","s","s","i","n","g"," ","d","o","c","s","t","r","i","n","g","\"",",","\"","l","i","n","e","\"",":","1",",","\"","c","o","l","u","m","n","\"",":","0",",","\"","c","a","t","e","g","o","r","y","\"",":","\"","c","o","n","v","e","n","t","i","o","n","\"",",","\"","s","y","m","b","o","l","\"",":","\"","c","1","\"","}","]">>
PY_INFO == <<"[","{","\"","m","e","s","s","a","g","e","\"",":","\"","n","o","t","e","\"",",","\"","l","i","n","e","\"",":","2",",","\"","c","o","l","u","m","n","\"",":","0",",","\"","c","a","t","e","g","o","r","y","\"",":","\"","i","n","f","o","\"",",","\"","s","y","m","b","o","l","\"",":","\"","i","1","\"","}","]">>
PY_ERROR_THEN_BARE == <<"[","{","\"","m","e","s","s","a","g","e","\"",":","\"","b","a","d","\"",",","\"","l","i","n","e","\"",":","3",",","\"","c","o","l","u","m","n","\"",":","0",",","\"","c","a","t","e","g","o","r","y","\"",":","\"","e","r","r","o","r","\"",",","\"","s","y","m","b","o","l","\"",":","\"","e","1","\"","}",",","{","}","]">>
RA_SIX == <<"[","{","\"","c","o","m","p","l","e","x","i","t","y","\"",":","6",",","\"","n","a","m","e","\"",":","\"","f","\"",",","\"","l","o","c","\"",":","9",",","\"","l","l","o","c","\"",":","8",",","\"","c","c","\"",":","\"","B","\"",",","\"","s","t","a","r","t","_","l","i","n","e","\"",":","2","}","]">>
RA_FIVE_SEVEN == <<"[","{","\"","c","o","m","p","l","e","x","i","t","y","\"",":","5",",","\"","n","a","m","e","\"",":","\"","g","\"",",","\"","l","o","c","\"",":","9",",","\"","l","l","o","c","\"",":","8",",","\"","c","c","\"",":","\"","A","\"","}",",","{","\"","c","o","m","p","l","e","x","i","t","y","\"",":","7",",","\"","n","a","m","e","\"",":","\"","h","\"",",","\"","l","o","c","\"",":","9",",","\"","l","l","o","c","\"",":","8",",","\"","c","c","\"",":","\"","B","\"","}","]">>
RA_NO_COMPLEXITY == <<"[","{","\"","n","a","m","e","\"",":","\"","f","\"","}","]">>
RA_NO_NAME == <<"[","{","\"","c","o","m","p","l","e","x","i","t","y","\"",":","7","}","]">>
RA_BY_FILE == <<"{","\"","t",".","p","y","\"",":","[","{","\"","c","o","m","p","l","e","x","i","t","y","\"",":","9",",","\"","n","a","m","e","\"",":","\"","f","\"","}","]","}">>
J_EMPTY_LIST == <<"[","]">>
J_BARE_OBJECT == <<"[","{","}","]">>
J_EMPTY_DICT == <<"{","}">>
J_NUMBER == <<"7">>
NOT_JSON == <<"o","o","p","s">>

PyItem(message, line, column, category, symbol) ==
    JObj([message |-> message, line |-> line, column |-> column,
          category |-> category, symbol |-> symbol])

RaItem(complexity, name, cc) ==
    [complexity |-> complexity, name |-> name, loc |-> 9, lloc |-> 8, cc |-> cc]

JsonReadings ==
    << <<PY_ERROR, JList(<<PyItem(<<"b","a","d">>, 3, 0, <<"e","r","r","o","r">>, <<"e","1">>)>>)>>,
       <<PY_WARNING, JList(<<PyItem(<<"s","l","o","w">>, 4, 1, <<"w","a","r","n","i","n","g">>, <<"w","1">>)>>)>>,
       <<PY_CONVENTION,
         JList(<<PyItem(<<"M","i","s","s","i","n","g"," ","d","o","c","s","t","r","i","n","g">>, 1, 0, <<"c","o","n","v","e","n","t","i","o","n">>, <<"c","1">>)>>)>>,
       <<PY_INFO, JList(<<PyItem(<<"n","o","t","e">>, 2, 0, <<"i","n","f","o">>, <<"i","1">>)>>)>>,
       <<PY_ERROR_THEN_BARE,
         JList(<<PyItem(<<"b","a","d">>, 3, 0, <<"e","r","r","o","r">>, <<"e","1">>), JObj(<<>>)>>)>>,
       <<RA_SIX,
         JList(<<JObj([complexity |-> 6, name |-> <<"f">>, loc |-> 9, lloc |-> 8,
                       cc |-> <<"B">>, start_line |-> 2])>>)>>,
       <<RA_FIVE_SEVEN,
         JList(<<JObj(RaItem(5, <<"g">>, <<"A">>)), JObj(RaItem(7, <<"h">>, <<"B">>))>>)>>,
       <<RA_NO_COMPLEXITY, JList(<<JObj([name |-> <<"f">>])>>)>>,
       <<RA_NO_NAME, JList(<<JObj([complexity |-> 7])>>)>>,
       <<RA_BY_FILE, JDict(<<<<"t",".","p","y">>>>)>>,
       <<J_EMPTY_LIST, JList(<<>>)>>,
       <<J_BARE_OBJECT, JList(<<JObj(<<>>)>>)>>,
       <<J_EMPTY_DICT, JDict(<<>>)>>,
       <<J_NUMBER, JNum(7)>> >>

\* json.loads(text): the reading of a document, JInvalid (JSONDecodeError)
\* for any other text.
json_loads(text) ==
    IF \E k \in 1..Len(JsonReadings) : JsonReadings[k][1] = text
    THEN JsonReadings[CHOOSE k \in 1..Len(JsonReadings) : JsonReadings[k][1] = text][2]
    ELSE JInvalid

\* The elements a for loop draws from a value; a dict yields its keys.
Iterable(v) == v.t \in {"list", "dict"}
Elements(v) ==
    IF v.t = "list" THEN v.xs
    ELSE [k \in 1..Len(v.keys) |-> JStr(v.keys[k])]

\* str(e) of the TypeErrors of looping over, or indexing, a value of the
\* wrong type.
NotIterableMsg == <<"'","i","n","t","'"," ","o","b","j","e","c","t"," ","i","s"," ","n","o","t"," ","i","t","e","r","a","b","l","e">>
NotSubscriptableMsg(item) ==
    IF item.t = "str" THEN <<"s","t","r","i","n","g"," ","i","n","d","i","c","e","s"," ","m","u","s","t"," ","b","e"," ","i","n","t","e","g","e","r","s",","," ","n","o","t"," ","'","s","t","r","'">>
    ELSE <<"'","i","n","t","'"," ","o","b","j","e","c","t"," ","i","s"," ","n","o","t"," ","s","u","b","s","c","r","i","p","t","a","b","l","e">>

\* The first of keys that dict d lacks, as item[key] finds it, or 0.
FirstMissing(d, keys) ==
    IF \E k \in 1..Len(keys) : keys[k][1] \notin DOMAIN d
    THEN CHOOSE k \in 1..Len(keys) :
             /\ keys[k][1] \notin DOMAIN d
             /\ \A j \in 1..(k - 1) : keys[j][1] \in DOMAIN d
    ELSE 0

\* --------------------------------------------------------------- pylint
\* _get_severity as it would be if a convention message were a warning.
Pylint_get_severity_convention_warning(category) ==
    IF category = <<"e","r","r","o","r">> THEN <<"e","r","r","o","r">>
    ELSE IF category = <<"w","a","r","n","i","n","g">> \/ category = <<"c","o","n","v","e","n","t","i","o","n">> THEN <<"w","a","r","n","i","n","g">>
    ELSE <<"i","n","f","o">>

Pylint_get_severity(category) ==
    IF category = <<"e","r","r","o","r">> THEN <<"e","r","r","o","r">>
    ELSE IF category = <<"w","a","r","n","i","n","g">> THEN <<"w","a","r","n","i","n","g">>
    ELSE IF category = <<"c","o","n","v","e","n","t","i","o","n">> THEN <<"i","n","f","o">>
    ELSE IF category = <<"r","e","f","a","c","t","o","r">> THEN <<"i","n","f","o">>
    ELSE IF category = <<"i","n","f","o">> THEN <<"i","n","f","o">>
    ELSE <<"i","n","f","o">>

\* The keys analyze reads from each item, in the order it reads them.
PylintKeys ==
    << <<"message", <<"m","e","s","s","a","g","e">>>>, <<"line", <<"l","i","n","e">>>>, <<"column", <<"c","o","l","u","m","n">>>>,
       <<"category", <<"c","a","t","e","g","o","r","y">>>>, <<"symbol", <<"s","y","m","b","o","l">>>> >>

\* The loop over the items of the parsed output.
RECURSIVE PylintItems(_, _, _)
PylintItems(st, filename, items) ==
    IF Len(items) = 0 THEN Normal(st)
    ELSE LET item == Head(items)
         IN  IF item.t # "obj" THEN Raised(st, NotSubscriptableMsg(item))
             ELSE LET missing == FirstMissing(item.d, PylintKeys)
                  IN  IF missing # 0 THEN Raised(st, repr(PylintKeys[missing][2]))
                      ELSE LET category == item.d.category
                               issue == [file |-> filename,
                                         line |-> item.d.line,
                                         column |-> item.d.column,
                                         code |-> item.d.symbol,
                                         message |-> item.d.message,
                                         severity |-> Pylint_get_severity(category)]
                               st1 == AppendIssue(st, issue)
                               st2 == IF category = <<"e","r","r","o","r">>
                                      THEN [st1 EXCEPT !.total_errors = @ + 1]
                                      ELSE IF category = <<"w","a","r","n","i","n","g">>
                                      THEN [st1 EXCEPT !.total_warnings = @ + 1]
                                      ELSE IF category = <<"i","n","f","o">>
                                      THEN [st1 EXCEPT !.total_infos = @ + 1]
                                      ELSE st1
                           IN  PylintItems(st2, filename, Tail(items))

\* The statements of the try block after subprocess.run returned.
PylintParse(st, filename, result) ==
    LET pylint_output == json_loads(result.stdout)
        parsed ==
            IF Len(result.stdout) = 0 THEN Normal(st)
            ELSE IF pylint_output.t = "invalid"
            THEN Normal(AppendIssue(st, SyntheticIssue(filename,
                     <<"P","y","l","i","n","t"," ","o","u","t","p","u","t"," ","p","a","r","s","i","n","g"," ","e","r","r","o","r",":"," ">> \o result.stdout)))
            ELSE IF ~Iterable(pylint_output) THEN Raised(st, NotIterableMsg)
            ELSE PylintItems(st, filename, Elements(pylint_output))
    IN  IF parsed.raised THEN parsed
        ELSE IF Len(result.stderr) > 0
        THEN Normal(AppendIssue(parsed.st,
                 SyntheticIssue(filename, <<"P","y","l","i","n","t"," ","e","r","r","o","r",":"," ">> \o result.stderr)))
        ELSE parsed

\* try / except FileNotFoundError / except Exception of one file.
PylintTry(st, filename, result) ==
    IF result.exc = "FileNotFoundError"
    THEN AppendIssue(st, SyntheticIssue(filename, <<"P","y","l","i","n","t"," ","n","o","t"," ","i","n","s","t","a","l","l","e","d"," ","o","r"," ","n","o","t"," ","i","n"," ","P","A","T","H">>))
    ELSE IF result.exc # "none"
    THEN AppendIssue(st, SyntheticIssue(filename, <<"E","r","r","o","r"," ","r","u","n","n","i","n","g"," ","P","y","l","i","n","t",":"," ">> \o result.msg))
    ELSE LET body == PylintParse(st, filename, result)
         IN  IF body.raised
             THEN AppendIssue(body.st,
                      SyntheticIssue(filename, <<"E","r","r","o","r"," ","r","u","n","n","i","n","g"," ","P","y","l","i","n","t",":"," ">> \o body.msg))
             ELSE body.st

\* ---------------------------------------------------------------- radon
\* The complexity above which a unit is flagged.
ComplexityThreshold == 5

\* The keys analyze reads from an item that has 'complexity', in order.
RadonKeys ==
    << <<"complexity", <<"c","o","m","p","l","e","x","i","t","y">>>>, <<"name", <<"n","a","m","e">>>>, <<"loc", <<"l","o","c">>>>,
       <<"lloc", <<"l","l","o","c">>>>, <<"cc", <<"c","c">>>> >>

\* 'complexity' in item: a key test on a dict, a substring test on a str.
HasComplexity(item) ==
    IF item.t = "obj" THEN "complexity" \in DOMAIN item.d
    ELSE contains(item.s, <<"c","o","m","p","l","e","x","i","t","y">>)

RadonIssue(filename, d) ==
    [file |-> filename,
     line |-> IF "start_line" \in DOMAIN d THEN d.start_line ELSE 0,
     message |-> <<"H","i","g","h"," ","c","o","m","p","l","e","x","i","t","y"," ","d","e","t","e","c","t","e","d"," ","i","n"," ">> \o d.name \o <<":"," ">>
                 \o str(d.complexity) \o <<" ","(","C","C",":"," ">> \o d.cc \o <<")">>,
     severity |-> <<"w","a","r","n","i","n","g">>,
     details |-> [complexity |-> d.complexity, name |-> d.name, loc |-> d.loc,
                  lloc |-> d.lloc, cc |-> d.cc]]

\* RadonItems as it would be if a unit that meets the threshold were
\* flagged too.
RECURSIVE RadonItems_flagging_threshold(_, _, _)
RadonItems_flagging_threshold(st, filename, items) ==
    IF Len(items) = 0 THEN Normal(st)
    ELSE LET item == Head(items)
         IN  IF item.t = "num" THEN Raised(st, <<"a","r","g","u","m","e","n","t"," ","o","f"," ","t","y","p","e"," ","'","i","n","t","'"," ","i","s"," ","n","o","t"," ","i","t","e","r","a","b","l","e">>)
             ELSE IF ~HasComplexity(item)
             THEN RadonItems_flagging_threshold(st, filename, Tail(items))
             ELSE IF item.t # "obj" THEN Raised(st, NotSubscriptableMsg(item))
             ELSE LET missing == FirstMissing(item.d, RadonKeys)
                  IN  IF missing # 0 THEN Raised(st, repr(RadonKeys[missing][2]))
                      ELSE IF item.d.complexity >= ComplexityThreshold
                      THEN RadonItems_flagging_threshold(
                               [AppendIssue(st, RadonIssue(filename, item.d))
                                   EXCEPT !.total_complexity_issues = @ + 1],
                               filename, Tail(items))
                      ELSE RadonItems_flagging_threshold(st, filename, Tail(items))

\* The loop over the items of the parsed output.
RECURSIVE RadonItems(_, _, _)
RadonItems(st, filename, items) ==
    IF Len(items) = 0 THEN Normal(st)
    ELSE LET item == Head(items)
         IN  IF item.t = "num" THEN Raised(st, <<"a","r","g","u","m","e","n","t"," ","o","f"," ","t","y","p","e"," ","'","i","n","t","'"," ","i","s"," ","n","o","t"," ","i","t","e","r","a","b","l","e">>)
             ELSE IF ~HasComplexity(item) THEN RadonItems(st, filename, Tail(items))
             ELSE IF item.t # "obj" THEN Raised(st, NotSubscriptableMsg(item))
             ELSE LET missing == FirstMissing(item.d, RadonKeys)
                  IN  IF missing # 0 THEN Raised(st, repr(RadonKeys[missing][2]))
                      ELSE IF item.d.complexity > ComplexityThreshold
                      THEN RadonItems(
                               [AppendIssue(st, RadonIssue(filename, item.d))
                                   EXCEPT !.total_complexity_issues = @ + 1],
                               filename, Tail(items))
                      ELSE RadonItems(st, filename, Tail(items))

\* The statements of the try block after subprocess.run returned.
RadonParse(st, filename, result) ==
    LET radon_output == json_loads(result.stdout)
        parsed ==
            IF Len(result.stdout) = 0 THEN Normal(st)
            ELSE IF radon_output.t = "invalid"
            THEN Normal(AppendIssue(st, SyntheticIssue(filename,
                     <<"R","a","d","o","n"," ","o","u","t","p","u","t"," ","p","a","r","s","i","n","g"," ","e","r","r","o","r",":"," ">> \o result.stdout)))
            ELSE IF ~Iterable(radon_output) THEN Raised(st, NotIterableMsg)
            ELSE RadonItems(st, filename, Elements(radon_output))
    IN  IF parsed.raised THEN parsed
        ELSE IF Len(result.stderr) > 0
        THEN Normal(AppendIssue(parsed.st,
                 SyntheticIssue(filename, <<"R","a","d","o","n"," ","e","r","r","o","r",":"," ">> \o result.stderr)))
        ELSE parsed

\* try / except FileNotFoundError / except Exception of one file.
RadonTry(st, filename, result) ==
    IF result.exc = "FileNotFoundError"
    THEN AppendIssue(st, SyntheticIssue(filename, <<"R","a","d","o","n"," ","n","o","t"," ","i","n","s","t","a","l","l","e","d"," ","o","r"," ","n","o","t"," ","i","n"," ","P","A","T","H">>))
    ELSE IF result.exc # "none"
    THEN AppendIssue(st, SyntheticIssue(filename, <<"E","r","r","o","r"," ","r","u","n","n","i","n","g"," ","R","a","d","o","n",":"," ">> \o result.msg))
    ELSE LET body == RadonParse(st, filename, result)
         IN  IF body.raised
             THEN AppendIssue(body.st,
                      SyntheticIssue(filename, <<"E","r","r","o","r"," ","r","u","n","n","i","n","g"," ","R","a","d","o","n",":"," ">> \o body.msg))
             ELSE body.st

\* Flake8Result as it would be if total_issues were the sum of the two
\* counters.
Flake8Result_sum_of_counters(st) ==
    [total_issues |-> st.total_errors + st.total_warnings, errors |-> st.total_errors,
     warnings |-> st.total_warnings, issues |-> st.issues]

\* The dict analyze returns.
Flake8Result(st) ==
    [total_issues |-> Len(st.issues), errors |-> st.total_errors,
     warnings |-> st.total_warnings, issues |-> st.issues]

\* PylintResult as it would be if total_issues were the sum of the three
\* counters.
PylintResult_sum_of_counters(st) ==
    [total_issues |-> st.total_errors + st.total_warnings + st.total_infos,
     errors |-> st.total_errors, warnings |-> st.total_warnings,
     infos |-> st.total_infos, issues |-> st.issues]

PylintResult(st) ==
    [total_issues |-> Len(st.issues), errors |-> st.total_errors,
     warnings |-> st.total_warnings, infos |-> st.total_infos, issues |-> st.issues]

RadonResult(st) ==
    [total_issues |-> Len(st.issues),
     complexity_issues |-> st.total_complexity_issues, issues |-> st.issues]

\* ---------------------------------------------------- feedback generator
\* dict.get(key, default)
Get(d, key, default) == IF key \in DOMAIN d THEN d[key] ELSE default

\* severity_mapping as it would be if 'info' were mapped to 'low'.
severity_mapping_info_low ==
    << <<<<"e","r","r","o","r">>, "critical">>, <<<<"w","a","r","n","i","n","g">>, "high">>, <<<<"i","n","f","o">>, "low">> >>

\* self.severity_mapping
severity_mapping ==
    << <<<<"e","r","r","o","r">>, "critical">>, <<<<"w","a","r","n","i","n","g">>, "high">>, <<<<"i","n","f","o">>, "medium">> >>

\* self.severity_mapping.get(severity.lower(), 'medium')
map_severity(severity) ==
    LET s == lower(severity)
    IN  IF \E k \in 1..Len(severity_mapping) : severity_mapping[k][1] = s
        THEN severity_mapping[CHOOSE k \in 1..Len(severity_mapping) :
                                  severity_mapping[k][1] = s][2]
        ELSE "medium"

EmptyBuckets == [critical |-> <<>>, high |-> <<>>, medium |-> <<>>, low |-> <<>>]

\* The record a bucket receives for one issue.
BucketRecord(analyzer_name, issue) ==
    [analyzer |-> analyzer_name,
     file |-> Get(issue, "file", "unknown"),
     line |-> Get(issue, "line", 0),
     message |-> Get(issue, "message", <<"U","n","k","n","o","w","n"," ","i","s","s","u","e">>),
     code |-> Get(issue, "code", <<"u","n","k","n","o","w","n">>)]

\* BucketIssues as it would be if it read issue['severity'] and passed over
\* an issue without that key.
RECURSIVE BucketIssues_needs_severity(_, _, _)
BucketIssues_needs_severity(buckets, analyzer_name, iss) ==
    IF Len(iss) = 0 THEN buckets
    ELSE LET issue == Head(iss)
         IN  IF "severity" \notin DOMAIN issue
             THEN BucketIssues_needs_severity(buckets, analyzer_name, Tail(iss))
             ELSE BucketIssues_needs_severity(
                      [buckets EXCEPT ![map_severity(issue.severity)] =
                          Append(@, BucketRecord(analyzer_name, issue))],
                      analyzer_name, Tail(iss))

\* The inner loop of generate_feedback: the issues of one analyzer.
RECURSIVE BucketIssues(_, _, _)
BucketIssues(buckets, analyzer_name, iss) ==
    IF Len(iss) = 0 THEN buckets
    ELSE LET issue == Head(iss)
             severity == map_severity(Get(issue, "severity", <<"i","n","f","o">>))
         IN  BucketIssues(
                 [buckets EXCEPT ![severity] = Append(@, BucketRecord(analyzer_name, issue))],
                 analyzer_name, Tail(iss))

\* The outer loop: analysis_results.items(), in insertion order.  A result
\* without an 'issues' key, or with an empty list, adds nothing.
RECURSIVE CategorizeIssues(_, _)
CategorizeIssues(buckets, results) ==
    IF Len(results) = 0 THEN buckets
    ELSE LET result == Head(results).result
             next == IF "issues" \in DOMAIN result /\ Len(result.issues) > 0
                     THEN BucketIssues(buckets, Head(results).name, result.issues)
                     ELSE buckets
         IN  CategorizeIssues(next, Tail(results))

\* Whether some issue message of some result has one of keywords in it,
\* after lower().
HasKeyword(results, keywords) ==
    \E a \in 1..Len(results) :
        /\ "issues" \in DOMAIN results[a].result
        /\ \E k \in 1..Len(results[a].result.issues) :
              LET message == lower(Get(results[a].result.issues[k], "message", <<>>))
              IN  \E w \in keywords : contains(message, w)

\* has_security_issues as it would be if it looked for the keywords in the
\* message as written, without lower().
has_security_issues_as_written(results) ==
    \E a \in 1..Len(results) :
        /\ "issues" \in DOMAIN results[a].result
        /\ \E k \in 1..Len(results[a].result.issues) :
              LET message == Get(results[a].result.issues[k], "message", <<>>)
              IN  \E w \in {<<"s","e","c","u","r","i","t","y">>, <<"v","u","l","n","e","r","a","b","i","l","i","t","y">>, <<"i","n","j","e","c","t","i","o","n">>, <<"s","q","l">>} :
                      contains(message, w)

has_security_issues(results) ==
    HasKeyword(results, {<<"s","e","c","u","r","i","t","y">>, <<"v","u","l","n","e","r","a","b","i","l","i","t","y">>, <<"i","n","j","e","c","t","i","o","n">>, <<"s","q","l">>})

has_performance_issues(results) ==
    HasKeyword(results, {<<"p","e","r","f","o","r","m","a","n","c","e">>, <<"s","l","o","w">>, <<"i","n","e","f","f","i","c","i","e","n","t">>, <<"m","e","m","o","r","y">>})

has_documentation_issues(results) ==
    HasKeyword(results, {<<"d","o","c","s","t","r","i","n","g">>, <<"d","o","c","u","m","e","n","t","a","t","i","o","n">>, <<"m","i","s","s","i","n","g">>})

\* list(dict.fromkeys(recommendations)): the first occurrence of each string.
RECURSIVE Dedup(_)
Dedup(recs) ==
    IF Len(recs) = 0 THEN <<>>
    ELSE LET front == Dedup(SubSeq(recs, 1, Len(recs) - 1))
             last == recs[Len(recs)]
         IN  IF \E k \in 1..Len(front) : front[k] = last THEN front
             ELSE Append(front, last)

REC_STYLE == <<"E","n","s","u","r","e"," ","a","l","l"," ","c","o","d","e"," ","f","o","l","l","o","w","s"," ","t","h","e"," ","p","r","o","j","e","c","t","'","s"," ","s","t","y","l","e"," ","g","u","i","d","e","l","i","n","e","s">>
REC_REVIEW == <<"R","e","v","i","e","w"," ","a","l","l"," ","i","d","e","n","t","i","f","i","e","d"," ","i","s","s","u","e","s"," ","b","e","f","o","r","e"," ","m","e","r","g","i","n","g">>
RecCritical(n) == <<"F","i","x"," ">> \o str(n) \o <<" ","c","r","i","t","i","c","a","l"," ","i","s","s","u","e","s"," ","b","e","f","o","r","e"," ","m","e","r","g","i","n","g">>
RecHigh(n) == <<"A","d","d","r","e","s","s"," ">> \o str(n) \o <<" ","h","i","g","h"," ","s","e","v","e","r","i","t","y"," ","i","s","s","u","e","s">>
RecMedium(n) == <<"C","o","n","s","i","d","e","r"," ","a","d","d","r","e","s","s","i","n","g"," ">> \o str(n) \o <<" ","m","e","d","i","u","m"," ","s","e","v","e","r","i","t","y"," ","i","s","s","u","e","s">>
REC_SECURITY == <<"R","e","v","i","e","w"," ","s","e","c","u","r","i","t","y"," ","i","m","p","l","i","c","a","t","i","o","n","s"," ","o","f"," ","c","o","d","e"," ","c","h","a","n","g","e","s">>
REC_PERFORMANCE == <<"C","o","n","s","i","d","e","r"," ","p","e","r","f","o","r","m","a","n","c","e"," ","o","p","t","i","m","i","z","a","t","i","o","n","s">>
REC_REFACTOR == <<"R","e","f","a","c","t","o","r"," ","c","o","m","p","l","e","x"," ","f","u","n","c","t","i","o","n","s"," ","t","o"," ","i","m","p","r","o","v","e"," ","r","e","a","d","a","b","i","l","i","t","y">>
REC_DOCUMENTATION == <<"U","p","d","a","t","e"," ","d","o","c","u","m","e","n","t","a","t","i","o","n"," ","t","o"," ","r","e","f","l","e","c","t"," ","c","o","d","e"," ","c","h","a","n","g","e","s">>

\* recommendations.append(x) if cond
AppendIf(recs, cond, x) == IF cond THEN Append(recs, x) ELSE recs

\* generate_recommendations as it would be with the complexity check moved
\* in front of the two keyword checks.
generate_recommendations_reordered(results, buckets) ==
    LET r2 == <<REC_STYLE, REC_REVIEW>>
        r3 == AppendIf(r2, Len(buckets.critical) > 0, RecCritical(Len(buckets.critical)))
        r4 == AppendIf(r3, Len(buckets.high) > 0, RecHigh(Len(buckets.high)))
        r5 == AppendIf(r4, Len(buckets.medium) > 0, RecMedium(Len(buckets.medium)))
        r6 == AppendIf(r5, Len(buckets.high) + Len(buckets.medium) > 0, REC_REFACTOR)
        r7 == AppendIf(r6, has_security_issues(results), REC_SECURITY)
        r8 == AppendIf(r7, has_performance_issues(results), REC_PERFORMANCE)
        r9 == AppendIf(r8, has_documentation_issues(results), REC_DOCUMENTATION)
    IN  Dedup(r9)

\* generate_recommendations as it would be if the three counts were
\* reported without the `> 0` guards.
generate_recommendations_unguarded(results, buckets) ==
    LET r5 == <<REC_STYLE, REC_REVIEW, RecCritical(Len(buckets.critical)),
                RecHigh(Len(buckets.high)), RecMedium(Len(buckets.medium))>>
        r6 == AppendIf(r5, has_security_issues(results), REC_SECURITY)
        r7 == AppendIf(r6, has_performance_issues(results), REC_PERFORMANCE)
        r8 == AppendIf(r7, Len(buckets.high) + Len(buckets.medium) > 0, REC_REFACTOR)
        r9 == AppendIf(r8, has_documentation_issues(results), REC_DOCUMENTATION)
    IN  Dedup(r9)

generate_recommendations(results, buckets) ==
    LET total_critical == Len(buckets.critical)
        total_high == Len(buckets.high)
        total_medium == Len(buckets.medium)
        complexity_issues == Len(buckets.high) + Len(buckets.medium)
        r2 == <<REC_STYLE, REC_REVIEW>>
        r3 == AppendIf(r2, total_critical > 0, RecCritical(total_critical))
        r4 == AppendIf(r3, total_high > 0, RecHigh(total_high))
        r5 == AppendIf(r4, total_medium > 0, RecMedium(total_medium))
        r6 == AppendIf(r5, has_security_issues(results), REC_SECURITY)
        r7 == AppendIf(r6, has_performance_issues(results), REC_PERFORMANCE)
        r8 == AppendIf(r7, complexity_issues > 0, REC_REFACTOR)
        r9 == AppendIf(r8, has_documentation_issues(results), REC_DOCUMENTATION)
    IN  Dedup(r9)

\* The loop of _generate_summary over the results that have 'total_issues'.
RECURSIVE SumResults(_, _)
SumResults(summary, results) ==
    IF Len(results) = 0 THEN summary
    ELSE LET result == Head(results).result
             next ==
                 IF "total_issues" \in DOMAIN result
                 THEN [summary EXCEPT
                          !.total_issues = @ + result.total_issues,
                          !.by_severity.critical = @ + Get(result, "errors", 0),
                          !.by_severity.high = @ + Get(result, "warnings", 0),
                          !.by_severity.medium = @ + Get(result, "infos", 0)]
                 ELSE summary
         IN  SumResults(next, Tail(results))

\* generate_summary as it would be if by_severity and total_issues were
\* the sizes of the buckets.
generate_summary_from_buckets(results) ==
    LET buckets == CategorizeIssues(EmptyBuckets, results)
    IN  [total_issues |-> Len(buckets.critical) + Len(buckets.high)
                          + Len(buckets.medium) + Len(buckets.low),
         by_severity |-> [critical |-> Len(buckets.critical), high |-> Len(buckets.high),
                          medium |-> Len(buckets.medium), low |-> Len(buckets.low)],
         analyzers_used |-> [k \in 1..Len(results) |-> results[k].name]]

generate_summary(results) ==
    SumResults(
        [total_issues |-> 0,
         by_severity |-> [critical |-> 0, high |-> 0, medium |-> 0, low |-> 0],
         analyzers_used |-> [k \in 1..Len(results) |-> results[k].name]],
        results)

generate_feedback(results) ==
    LET buckets == CategorizeIssues(EmptyBuckets, results)
    IN  [issues |-> buckets,
         recommendations |-> generate_recommendations(results, buckets),
         summary |-> generate_summary(results)]

\* ------------------------------------------------------- quality scorer
severity_weights == [critical |-> 10, high |-> 7, medium |-> 4, low |-> 1]

max_possible_score == 100

Max(a, b) == IF a >= b THEN a ELSE b
Min(a, b) == IF a <= b THEN a ELSE b

\* The sum of len(issues) * weight over the buckets of feedback['issues'].
RECURSIVE WeightedSum(_, _)
WeightedSum(buckets, names) ==
    IF names = {} THEN 0
    ELSE LET severity == CHOOSE n \in names : TRUE
         IN  Len(buckets[severity]) * Get(severity_weights, severity, 1)
             + WeightedSum(buckets, names \ {severity})

\* calculate_quality_score as it would be without the floor at 0.
calculate_quality_score_unfloored(fb) ==
    Min(100, max_possible_score
             - WeightedSum(Get(fb, "issues", <<>>), DOMAIN Get(fb, "issues", <<>>)))

\* round(score, 2) of an int is that int.
calculate_quality_score(fb) ==
    LET issue_buckets == Get(fb, "issues", <<>>)
        total_weighted_score == WeightedSum(issue_buckets, DOMAIN issue_buckets)
    IN  Max(0, Min(100, max_possible_score - total_weighted_score))

\* ------------------------------------------------- the external tools
\* What subprocess.run does for one file: it raises (the binary is missing,
\* or some other OSError), or returns the two streams of the process.
ToolRaises(exc, msg) == [exc |-> exc, msg |-> msg, stdout |-> <<>>, stderr |-> <<>>]
ToolReturns(stdout, stderr) == [exc |-> "none", msg |-> <<>>, stdout |-> stdout, stderr |-> stderr]

MISSING == <<"[","E","r","r","n","o"," ","2","]"," ","N","o"," ","s","u","c","h"," ","f","i","l","e"," ","o","r"," ","d","i","r","e","c","t","o","r","y">>
DENIED == <<"[","E","r","r","n","o"," ","1","3","]"," ","P","e","r","m","i","s","s","i","o","n"," ","d","e","n","i","e","d">>
BOOM == <<"b","o","o","m">>

Flake8Runs ==
    << ToolRaises("FileNotFoundError", MISSING),
       ToolRaises("PermissionError", DENIED),
       ToolReturns(<<>>, <<>>),
       ToolReturns(<<"1",":","1",":","E","9",":","b","a","d","\n">>, <<>>),
       ToolReturns(<<>>, BOOM),
       ToolReturns(<<"2",":","1",":","W","6",":","s","q","l","\n">>, <<>>),
       ToolReturns(<<"4",":","1",":","N","8",":","n","m","\n">>, <<>>),
       ToolReturns(<<"o","o","p","s","\n">>, <<>>),
       ToolReturns(<<"x",":","1",":","E","1",":","y","\n">>, <<>>),
       ToolReturns(<<"3",":","1",":","C","9",":","c","x","\n","x",":","1",":","E","1",":","y","\n">>, <<>>),
       ToolReturns(<<"1",":","1",":","F","4",":","i","m","p","\n">>, BOOM),
       ToolReturns(<<"o","o","p","s","\n">>, BOOM),
       ToolReturns(<<"x",":","1",":","E","1",":","y","\n">>, BOOM) >>

PylintRuns ==
    << ToolRaises("FileNotFoundError", MISSING),
       ToolRaises("PermissionError", DENIED),
       ToolReturns(<<>>, <<>>),
       ToolReturns(PY_ERROR, <<>>),
       ToolReturns(<<>>, BOOM),
       ToolReturns(PY_WARNING, <<>>),
       ToolReturns(PY_CONVENTION, <<>>),
       ToolReturns(PY_INFO, <<>>),
       ToolReturns(NOT_JSON, <<>>),
       ToolReturns(J_EMPTY_LIST, <<>>),
       ToolReturns(J_BARE_OBJECT, <<>>),
       ToolReturns(J_NUMBER, <<>>),
       ToolReturns(J_EMPTY_DICT, <<>>),
       ToolReturns(PY_ERROR_THEN_BARE, <<>>),
       ToolReturns(PY_ERROR, BOOM),
       ToolReturns(NOT_JSON, BOOM),
       ToolReturns(J_BARE_OBJECT, BOOM) >>

RadonRuns ==
    << ToolRaises("FileNotFoundError", MISSING),
       ToolRaises("PermissionError", DENIED),
       ToolReturns(<<>>, <<>>),
       ToolReturns(RA_SIX, <<>>),
       ToolReturns(<<>>, BOOM),
       ToolReturns(RA_FIVE_SEVEN, <<>>),
       ToolReturns(RA_NO_COMPLEXITY, <<>>),
       ToolReturns(RA_NO_NAME, <<>>),
       ToolReturns(RA_BY_FILE, <<>>),
       ToolReturns(NOT_JSON, <<>>),
       ToolReturns(J_NUMBER, <<>>),
       ToolReturns(J_EMPTY_LIST, <<>>),
       ToolReturns(RA_SIX, BOOM),
       ToolReturns(NOT_JSON, BOOM),
       ToolReturns(RA_NO_NAME, BOOM) >>

\* self.analyzers, in the order review_pr visits it.
Analyzers == <<"flake8", "pylint", "radon">>

ToolRuns(name) ==
    IF name = "flake8" THEN Flake8Runs
    ELSE IF name = "pylint" THEN PylintRuns
    ELSE RadonRuns

\* In a whole review each tool is missing, prints nothing, prints one
\* finding or prints to stderr only.
ReviewRuns == {1, 3, 4, 5}
AllRuns(name) == 1..Len(ToolRuns(name))

\* AnalyzerTry as it would be with except Exception standing before except
\* FileNotFoundError: a missing binary is reported as any other failure.
AnalyzerTry_one_handler(name, st, filename, result) ==
    LET r == IF result.exc = "FileNotFoundError"
             THEN [result EXCEPT !.exc = "OSError"]
             ELSE result
    IN  IF name = "flake8" THEN Flake8Try(st, filename, r)
        ELSE IF name = "pylint" THEN PylintTry(st, filename, r)
        ELSE RadonTry(st, filename, r)

\* The dispatch on the adapter class.
AnalyzerTry(name, st, filename, result) ==
    IF name = "flake8" THEN Flake8Try(st, filename, result)
    ELSE IF name = "pylint" THEN PylintTry(st, filename, result)
    ELSE RadonTry(st, filename, result)

AnalyzerResult(name, st) ==
    IF name = "flake8" THEN Flake8Result(st)
    ELSE IF name = "pylint" THEN PylintResult(st)
    ELSE RadonResult(st)

\* ------------------------------------------------------- changed files
Statuses == {"added", "modified", "removed", "renamed"}

\* One entry per file the request touches; the k-th file is named after k.
Filenames == <<"a.py", "b.py", "c.py", "d.py">>

\* A whole review is run on files that were modified or removed.
ReviewStatuses == {"modified", "removed"}

ChangedFiles(n, statuses) ==
    UNION {{[k \in 1..m |-> [filename |-> Filenames[k], status |-> f[k]]] :
               f \in [1..m -> statuses]} : m \in 0..n}

\* Eligible as it would be if renamed files were analyzed too.
Eligible_with_renamed(file) == file.status \in {"added", "modified", "renamed"}

Eligible(file) == file.status \in {"added", "modified"}

\* self.fetchers
Fetchers == {"github", "gitlab", "bitbucket"}

\* ----------------------------------------------------------------- state
VARIABLES
    server_type,              \* review_pr's argument
    changed_files,            \* pr_data['changed_files']
    pc,                       \* where control is
    analyzer,                 \* the adapter whose analyze is running
    idx,                      \* the position of the for loop in changed_files
    issues,                   \* analyze's locals
    total_errors,
    total_warnings,
    total_infos,
    total_complexity_issues,
    tmp_filename,             \* 0 while unbound
    tmpfs,                    \* the temporary files that exist
    created,                  \* how many temporary files were ever created
    calls,                    \* the subprocess.run calls made, in order
    outcome,                  \* how the analyze call ended
    analysis_results,         \* review_pr's dict, in insertion order
    feedback,
    quality_score,
    threads,                  \* the analyze calls that run side by side
    disk                      \* the temporary files those calls share

vars ==
    <<threads, disk, server_type, changed_files, pc, analyzer, idx, issues, total_errors,
      total_warnings, total_infos, total_complexity_issues, tmp_filename, tmpfs,
      created, calls, outcome, analysis_results, feedback, quality_score>>

locals ==
    <<issues, total_errors, total_warnings, total_infos, total_complexity_issues>>

None == [t |-> "None"]
Pending == [kind |-> "pending"]

Locals ==
    [issues |-> issues, total_errors |-> total_errors,
     total_warnings |-> total_warnings, total_infos |-> total_infos,
     total_complexity_issues |-> total_complexity_issues]

SetLocals(st) ==
    /\ issues' = st.issues
    /\ total_errors' = st.total_errors
    /\ total_warnings' = st.total_warnings
    /\ total_infos' = st.total_infos
    /\ total_complexity_issues' = st.total_complexity_issues

\* ------------------------------------------------------------- analyze
\* analyze is entered: the issue list is empty and the counters are 0.
EnterAnalyze(name) ==
    /\ analyzer' = name
    /\ idx' = 1
    /\ SetLocals(NoIssues)
    /\ tmp_filename' = 0
    /\ outcome' = Pending

\* The for loop meets a file whose status is not 'added' or 'modified'.
SkipFile ==
    /\ pc = "for"
    /\ idx <= Len(changed_files)
    /\ ~Eligible(changed_files[idx])
    /\ idx' = idx + 1
    /\ UNCHANGED <<threads, disk,
                   server_type, changed_files, pc, analyzer, locals, tmp_filename,
                   tmpfs, created, calls, outcome, analysis_results, feedback,
                   quality_score>>

\* How the with block that writes the patch to a named temporary file ends.
\* It stands before the try: an exception in it leaves analyze, and when the
\* file was already created (the write failed) nothing removes it.
TempOutcomes == {"written", "create_fails", "write_fails"}
NO_SPACE == <<"[","E","r","r","n","o"," ","2","8","]"," ","N","o"," ","s","p","a","c","e"," ","l","e","f","t"," ","o","n"," ","d","e","v","i","c","e">>
CANNOT_ENCODE == <<"'","a","s","c","i","i","'"," ","c","o","d","e","c"," ","c","a","n","'","t"," ","e","n","c","o","d","e"," ","c","h","a","r","a","c","t","e","r">>

MaterializeInput ==
    /\ pc = "for"
    /\ idx <= Len(changed_files)
    /\ Eligible(changed_files[idx])
    /\ \E t \in TempOutcomes :
          /\ created' = IF t = "create_fails" THEN created ELSE created + 1
          /\ tmpfs' = IF t = "create_fails" THEN tmpfs ELSE tmpfs \cup {created + 1}
          /\ tmp_filename' = IF t = "written" THEN created + 1 ELSE tmp_filename
          /\ pc' = IF t = "written" THEN "try" ELSE "raised"
          /\ outcome' = IF t = "written" THEN outcome
                        ELSE [kind |-> "raised",
                              msg |-> IF t = "create_fails" THEN NO_SPACE
                                      ELSE CANNOT_ENCODE]
    /\ UNCHANGED <<threads, disk,
                   server_type, changed_files, analyzer, idx, locals, calls,
                   analysis_results, feedback, quality_score>>

\* The try block of one file with its except clauses: the tool is run once
\* and what it printed becomes issues.
RunTool(runs) ==
    /\ pc = "try"
    /\ \E r \in runs :
          /\ SetLocals(AnalyzerTry(analyzer, Locals, changed_files[idx].filename,
                                   ToolRuns(analyzer)[r]))
          /\ calls' = Append(calls, [analyzer |-> analyzer, file |-> idx, run |-> r,
                                     tmp |-> tmp_filename])
    /\ pc' = "finally"
    /\ UNCHANGED <<threads, disk,
                   server_type, changed_files, analyzer, idx, tmp_filename, tmpfs,
                   created, outcome, analysis_results, feedback, quality_score>>

RunAnyTool == RunTool(AllRuns(analyzer))

\* finally: os.unlink(tmp_filename); the loop goes on with the next file.
Cleanup ==
    /\ pc = "finally"
    /\ tmpfs' = tmpfs \ {tmp_filename}
    /\ idx' = idx + 1
    /\ pc' = "for"
    /\ UNCHANGED <<threads, disk,
                   server_type, changed_files, analyzer, locals, tmp_filename,
                   created, calls, outcome, analysis_results, feedback,
                   quality_score>>

\* The loop is over: analyze returns its dict.
Return ==
    /\ pc = "for"
    /\ idx > Len(changed_files)
    /\ outcome' = [kind |-> "returned", value |-> AnalyzerResult(analyzer, Locals)]
    /\ pc' = "returned"
    /\ UNCHANGED <<threads, disk,
                   server_type, changed_files, analyzer, idx, locals, tmp_filename,
                   tmpfs, created, calls, analysis_results, feedback, quality_score>>

\* ----------------------------------------------------------- review_pr
\* Validate as it would be without the membership test: every server_type
\* goes on to the fetch.
Validate_unchecked ==
    /\ pc = "validate"
    /\ pc' = "fetch"
    /\ UNCHANGED <<threads, disk,
                   server_type, changed_files, analyzer, idx, locals, tmp_filename,
                   tmpfs, created, calls, outcome, analysis_results, feedback,
                   quality_score>>

\* if server_type not in self.fetchers: raise ValueError
Validate ==
    /\ pc = "validate"
    /\ pc' = IF server_type \in Fetchers THEN "fetch" ELSE "error"
    /\ UNCHANGED <<threads, disk,
                   server_type, changed_files, analyzer, idx, locals, tmp_filename,
                   tmpfs, created, calls, outcome, analysis_results, feedback,
                   quality_score>>

\* fetch_pr returns the changed files or raises, and then review_pr raises.
Fetch ==
    /\ pc = "fetch"
    /\ \/ /\ pc' = "error"
          /\ UNCHANGED changed_files
       \/ /\ changed_files' \in ChangedFiles(MaxReviewFiles, ReviewStatuses)
          /\ pc' = "analyzers"
    /\ UNCHANGED <<threads, disk,
                   server_type, analyzer, idx, locals, tmp_filename, tmpfs, created,
                   calls, outcome, analysis_results, feedback, quality_score>>

\* The loop over self.analyzers calls analyze of the next adapter.
CallAnalyzer ==
    /\ pc = "analyzers"
    /\ Len(analysis_results) < Len(Analyzers)
    /\ EnterAnalyze(Analyzers[Len(analysis_results) + 1])
    /\ pc' = "for"
    /\ UNCHANGED <<threads, disk,
                   server_type, changed_files, tmpfs, created, calls,
                   analysis_results, feedback, quality_score>>

\* StoreResult as it would be without the try around analyzer.analyze: an
\* exception of analyze leaves review_pr.
StoreResult_without_try ==
    /\ pc \in {"returned", "raised"}
    /\ analysis_results' =
           IF outcome.kind = "returned"
           THEN Append(analysis_results, [name |-> analyzer, result |-> outcome.value])
           ELSE analysis_results
    /\ pc' = IF outcome.kind = "raised" THEN "error"
             ELSE IF Len(analysis_results) + 1 < Len(Analyzers) THEN "analyzers"
             ELSE "feedback"
    /\ UNCHANGED <<threads, disk,
                   server_type, changed_files, analyzer, idx, locals, tmp_filename,
                   tmpfs, created, calls, outcome, feedback, quality_score>>

\* analysis_results[analyzer_name] = the dict analyze returned, or, when it
\* raised, {"error": str(e)}.
StoreResult ==
    /\ pc \in {"returned", "raised"}
    /\ analysis_results' =
           Append(analysis_results,
                  [name |-> analyzer,
                   result |-> IF outcome.kind = "returned" THEN outcome.value
                              ELSE [error |-> outcome.msg]])
    /\ pc' = IF Len(analysis_results) + 1 < Len(Analyzers) THEN "analyzers"
             ELSE "feedback"
    /\ UNCHANGED <<threads, disk,
                   server_type, changed_files, analyzer, idx, locals, tmp_filename,
                   tmpfs, created, calls, outcome, feedback, quality_score>>

RunReviewTool == RunTool(ReviewRuns)

GenerateFeedback ==
    /\ pc = "feedback"
    /\ feedback' = generate_feedback(analysis_results)
    /\ pc' = "score"
    /\ UNCHANGED <<threads, disk,
                   server_type, changed_files, analyzer, idx, locals, tmp_filename,
                   tmpfs, created, calls, outcome, analysis_results, quality_score>>

CalculateScore ==
    /\ pc = "score"
    /\ quality_score' = calculate_quality_score(feedback)
    /\ pc' = "done"
    /\ UNCHANGED <<threads, disk,
                   server_type, changed_files, analyzer, idx, locals, tmp_filename,
                   tmpfs, created, calls, outcome, analysis_results, feedback>>

\* ------------------------------------------------------ specifications
Idle ==
    /\ analyzer = "none"
    /\ idx = 1
    /\ issues = <<>>
    /\ total_errors = 0
    /\ total_warnings = 0
    /\ total_infos = 0
    /\ total_complexity_issues = 0
    /\ tmp_filename = 0
    /\ outcome = Pending

\* A whole review: PRReviewAgent.review_pr.
Init ==
    /\ server_type \in {"github", "svn"}
    /\ changed_files = <<>>
    /\ pc = "validate"
    /\ Idle
    /\ tmpfs = {}
    /\ threads = <<>>
    /\ disk = <<>>
    /\ created = 0
    /\ calls = <<>>
    /\ analysis_results = <<>>
    /\ feedback = None
    /\ quality_score = None

Next ==
    \/ Validate
    \/ Fetch
    \/ CallAnalyzer
    \/ SkipFile
    \/ MaterializeInput
    \/ RunReviewTool
    \/ Cleanup
    \/ Return
    \/ StoreResult
    \/ GenerateFeedback
    \/ CalculateScore

Spec == Init /\ [][Next]_vars

\* One analyze call of one adapter on a changed-file sequence.
InitAnalyze ==
    /\ server_type = "github"
    /\ changed_files \in ChangedFiles(MaxFiles, Statuses)
    /\ pc = "for"
    /\ analyzer \in {Analyzers[k] : k \in 1..Len(Analyzers)}
    /\ idx = 1
    /\ issues = <<>>
    /\ total_errors = 0
    /\ total_warnings = 0
    /\ total_infos = 0
    /\ total_complexity_issues = 0
    /\ tmp_filename = 0
    /\ outcome = Pending
    /\ tmpfs = {}
    /\ threads = <<>>
    /\ disk = <<>>
    /\ created = 0
    /\ calls = <<>>
    /\ analysis_results = <<>>
    /\ feedback = None
    /\ quality_score = None

NextAnalyze ==
    \/ SkipFile
    \/ MaterializeInput
    \/ RunAnyTool
    \/ Cleanup
    \/ Return

SpecAnalyze == InitAnalyze /\ [][NextAnalyze]_vars

\* generate_feedback on an analysis_results map of any shape.  The issues
\* an analyzer may report: with every key or with few, with severities in
\* and out of severity_mapping, in either case.
IssuePool ==
    << [file |-> "a.py", line |-> 3, column |-> 1, code |-> <<"E","9">>,
        message |-> <<"S","Q","L"," ","i","n","j","e","c","t","i","o","n"," ","r","i","s","k">>, severity |-> <<"e","r","r","o","r">>],
       [file |-> "a.py", line |-> 4, message |-> <<"s","l","o","w"," ","l","o","o","p">>,
        severity |-> <<"w","a","r","n","i","n","g">>],
       [file |-> "b.py", line |-> 1, code |-> <<"c","1">>,
        message |-> <<"M","i","s","s","i","n","g"," ","d","o","c","s","t","r","i","n","g">>, severity |-> <<"i","n","f","o">>],
       [file |-> "b.py", message |-> <<"B","a","d"," ","S","Q","L">>, severity |-> <<"E","R","R","O","R">>],
       [file |-> "c.py", code |-> <<"x">>, severity |-> <<"f","a","t","a","l">>],
       [message |-> <<"n","o","t","e">>] >>

IssueLists(n) ==
    UNION {[1..m -> {IssuePool[k] : k \in 1..Len(IssuePool)}] : m \in 0..n}

\* The shapes of a result: the issues with their count, the same with
\* counters of the adapter's own, or, for an analyzer without issues, the
\* record review_pr stores when analyze raised.
Shapes == {"plain", "counted", "error"}

ResultOf(shape, iss) ==
    IF shape = "error" /\ Len(iss) = 0 THEN [error |-> BOOM]
    ELSE IF shape = "counted"
    THEN [total_issues |-> Len(iss), errors |-> 1, warnings |-> Len(iss), infos |-> 2,
          issues |-> iss]
    ELSE [total_issues |-> Len(iss), issues |-> iss]

\* The map whose analyzers report s[1..a], s[a+1..b] and s[b+1..].
ResultsOf(shape, s, a, b) ==
    << [name |-> Analyzers[1], result |-> ResultOf(shape, SubSeq(s, 1, a))],
       [name |-> Analyzers[2], result |-> ResultOf(shape, SubSeq(s, a + 1, b))],
       [name |-> Analyzers[3], result |-> ResultOf(shape, SubSeq(s, b + 1, Len(s)))] >>

InitFeedback ==
    /\ server_type = "github"
    /\ changed_files = <<>>
    /\ pc = "feedback"
    /\ Idle
    /\ tmpfs = {}
    /\ threads = <<>>
    /\ disk = <<>>
    /\ created = 0
    /\ calls = <<>>
    /\ \E shape \in Shapes, s \in IssueLists(MaxIssues) :
          \E a \in 0..Len(s) : \E b \in a..Len(s) :
              analysis_results = ResultsOf(shape, s, a, b)
    /\ feedback = None
    /\ quality_score = None

NextFeedback ==
    \/ GenerateFeedback
    \/ CalculateScore

SpecFeedback == InitFeedback /\ [][NextFeedback]_vars

\* _calculate_quality_score on a feedback of any bucket sizes, with a
\* summary that agrees with the buckets or counts nothing.
Fill(n) == [k \in 1..n |-> k]

InitScore ==
    /\ server_type = "github"
    /\ changed_files = <<>>
    /\ pc = "score"
    /\ Idle
    /\ tmpfs = {}
    /\ threads = <<>>
    /\ disk = <<>>
    /\ created = 0
    /\ calls = <<>>
    /\ analysis_results = <<>>
    /\ \E c \in 0..MaxBucket, h \in 0..MaxBucket, m \in 0..MaxBucket,
          l \in 0..MaxBucket, agree \in BOOLEAN :
          feedback =
              [issues |-> [critical |-> Fill(c), high |-> Fill(h),
                           medium |-> Fill(m), low |-> Fill(l)],
               recommendations |-> <<REC_STYLE, REC_REVIEW>>,
               summary |->
                   [total_issues |-> IF agree THEN c + h + m + l ELSE 0,
                    by_severity |->
                        IF agree
                        THEN [critical |-> c, high |-> h, medium |-> m, low |-> l]
                        ELSE [critical |-> 0, high |-> 0, medium |-> 0, low |-> 0],
                    analyzers_used |-> Analyzers]]
    /\ quality_score = None

NextScore == CalculateScore

SpecScore == InitScore /\ [][NextScore]_vars

\* --------------------------------------------------- a tool that hangs
\* subprocess.run is called without timeout=: when the tool never exits the
\* call never returns, and neither the except clauses nor the finally run.
ToolHangs ==
    /\ pc = "try"
    /\ pc' = "blocked"
    /\ UNCHANGED <<threads, disk,
                   server_type, changed_files, analyzer, idx, locals, tmp_filename,
                   tmpfs, created, calls, outcome, analysis_results, feedback,
                   quality_score>>

\* The statements of analyze.
AnalyzeStep ==
    \/ ToolHangs
    \/ SkipFile
    \/ MaterializeInput
    \/ RunReviewTool
    \/ Cleanup
    \/ Return

\* review_pr up to the end of its loop over the analyzers.
NextHang ==
    \/ Validate
    \/ Fetch
    \/ CallAnalyzer
    \/ AnalyzeStep
    \/ StoreResult

\* The analyzer loop of a review in which a tool may hang.  Inside analyze
\* the interpreter always runs the next statement, and a tool that is run
\* exits or hangs; every such step moves pc or idx.
SpecHang == Init /\ [][NextHang]_vars /\ WF_<<pc, idx>>(AnalyzeStep)

\* ------------------------------------------------ analyze side by side
\* Two analyze calls at once.  analyze keeps everything in locals (issues,
\* the counters, tmp_filename) and the adapters have no attribute but their
\* name, so a call's state is its own; what the calls share is the
\* directory of temporary files.
Threads == {1, 2}

\* Longest changed-file sequence handed to one of the calls.
MaxConcurrentFiles == 2

review_vars ==
    <<server_type, changed_files, pc, analyzer, idx, issues, total_errors,
      total_warnings, total_infos, total_complexity_issues, tmp_filename, tmpfs,
      created, calls, outcome, analysis_results, feedback, quality_score>>

\* What a temporary file holds: the patch of a file of a call.
Content(t, i) == [owner |-> t, file |-> i]
NoFile == [owner |-> 0, file |-> 0]

\* NamedTemporaryFile as it would be if it opened one fixed path.
TempName_fixed(d) == 1

\* tempfile.NamedTemporaryFile creates its file under a name no existing
\* file has (O_EXCL): the least such name, so that a name one call has
\* freed is the next one given out.
TempName(d) ==
    CHOOSE n \in 1..(Cardinality(DOMAIN d) + 1) :
        /\ n \notin DOMAIN d
        /\ \A m \in 1..(n - 1) : m \in DOMAIN d

\* open(name, 'w') and write: the file holds c, whatever it held.
WriteFile(d, name, c) == (name :> c) @@ d

\* os.unlink(name); under `except: pass` a missing file changes nothing.
Unlink(d, name) == [n \in DOMAIN d \ {name} |-> d[n]]

\* What the tool is given to read under name.
ReadFile(d, name) == IF name \in DOMAIN d THEN d[name] ELSE NoFile

\* The tool's output is a function of the file it reads: a finding or
\* none, by the patch; and a complaint on stderr when the file is not there.
ToolOn(c) ==
    IF c = NoFile THEN 5
    ELSE IF (c.owner + c.file) % 2 = 0 THEN 4
    ELSE 3

ThreadInit ==
    [analyzer : {Analyzers[k] : k \in 1..Len(Analyzers)},
     files : ChangedFiles(MaxConcurrentFiles, ReviewStatuses),
     idx : {1}, pc : {"for"}, st : {NoIssues}, tmp_filename : {0},
     temps : {<<>>}, reads : {<<>>}, removed : {<<>>}, outcome : {Pending}]

\* The for loop meets a file whose status is not 'added' or 'modified'.
TSkip(t) ==
    LET th == threads[t]
    IN  /\ th.pc = "for"
        /\ th.idx <= Len(th.files)
        /\ ~Eligible(th.files[th.idx])
        /\ threads' = [threads EXCEPT ![t].idx = @ + 1]
        /\ UNCHANGED disk
        /\ UNCHANGED review_vars

\* The with block that writes the patch to a named temporary file.
TMaterialize(t) ==
    LET th == threads[t]
        name == TempName(disk)
    IN  /\ th.pc = "for"
        /\ th.idx <= Len(th.files)
        /\ Eligible(th.files[th.idx])
        /\ \E o \in TempOutcomes :
              /\ disk' = IF o = "create_fails" THEN disk
                         ELSE WriteFile(disk, name, Content(t, th.idx))
              /\ threads' =
                     [threads EXCEPT
                         ![t].temps = Append(@, o),
                         ![t].tmp_filename = IF o = "written" THEN name ELSE @,
                         ![t].pc = IF o = "written" THEN "try" ELSE "raised",
                         ![t].outcome =
                             IF o = "written" THEN @
                             ELSE [kind |-> "raised",
                                   msg |-> IF o = "create_fails" THEN NO_SPACE
                                           ELSE CANNOT_ENCODE]]
        /\ UNCHANGED review_vars

\* The try block with its except clauses: the tool reads the file named
\* tmp_filename and what it printed becomes issues.
TRun(t) ==
    LET th == threads[t]
        c == ReadFile(disk, th.tmp_filename)
    IN  /\ th.pc = "try"
        /\ threads' =
               [threads EXCEPT
                   ![t].st = AnalyzerTry(th.analyzer, @, th.files[th.idx].filename,
                                         ToolRuns(th.analyzer)[ToolOn(c)]),
                   ![t].reads = Append(@, [owner |-> c.owner, file |-> c.file,
                                           name |-> th.tmp_filename]),
                   ![t].pc = "finally"]
        /\ UNCHANGED disk
        /\ UNCHANGED review_vars

\* finally: os.unlink(tmp_filename); the loop goes on with the next file.
TCleanup(t) ==
    LET th == threads[t]
    IN  /\ th.pc = "finally"
        /\ disk' = Unlink(disk, th.tmp_filename)
        /\ threads' =
               [threads EXCEPT
                   ![t].removed = Append(@, ReadFile(disk, th.tmp_filename)),
                   ![t].idx = @ + 1,
                   ![t].pc = "for"]
        /\ UNCHANGED review_vars

\* The loop is over: analyze returns its dict.
TReturn(t) ==
    LET th == threads[t]
    IN  /\ th.pc = "for"
        /\ th.idx > Len(th.files)
        /\ threads' =
               [threads EXCEPT
                   ![t].outcome = [kind |-> "returned",
                                   value |-> AnalyzerResult(th.analyzer, th.st)],
                   ![t].pc = "returned"]
        /\ UNCHANGED disk
        /\ UNCHANGED review_vars

InitConcurrent ==
    /\ server_type = "github"
    /\ changed_files = <<>>
    /\ pc = "done"
    /\ Idle
    /\ tmpfs = {}
    /\ created = 0
    /\ calls = <<>>
    /\ analysis_results = <<>>
    /\ feedback = None
    /\ quality_score = None
    /\ threads \in [Threads -> ThreadInit]
    /\ disk = <<>>

NextConcurrent ==
    \E t \in Threads :
        \/ TSkip(t)
        \/ TMaterialize(t)
        \/ TRun(t)
        \/ TCleanup(t)
        \/ TReturn(t)

SpecConcurrent == InitConcurrent /\ [][NextConcurrent]_vars

\* ------------------------------------------------------------- properties
\* The issues of an analysis_results map, each with its analyzer, in the
\* order of the map.
RECURSIVE InputIssues(_)
InputIssues(results) ==
    IF Len(results) = 0 THEN <<>>
    ELSE LET r == Head(results)
             own == IF "issues" \in DOMAIN r.result
                    THEN [k \in 1..Len(r.result.issues) |->
                             [analyzer |-> r.name, issue |-> r.result.issues[k]]]
                    ELSE <<>>
         IN  own \o InputIssues(Tail(results))

Count(seq, x) == Cardinality({k \in 1..Len(seq) : seq[k] = x})

Bucketed == feedback.issues.critical \o feedback.issues.high
            \o feedback.issues.medium \o feedback.issues.low

FeedbackMade == pc \in {"score", "done"}

\* C1: once generate_feedback has run, the buckets are exactly critical,
\* high, medium and low, they hold as many records as the analyzers' issue
\* lists hold issues, and every record of an input issue is in the buckets
\* as often as that issue is in the input: each issue is in one bucket,
\* once, and nothing else is in a bucket.
C1_EveryIssueInExactlyOneBucket ==
    FeedbackMade =>
        LET input == InputIssues(analysis_results)
            expected == [k \in 1..Len(input) |->
                            BucketRecord(input[k].analyzer, input[k].issue)]
        IN  /\ DOMAIN feedback.issues = {"critical", "high", "medium", "low"}
            /\ Len(Bucketed) = Len(input)
            /\ \A k \in 1..Len(expected) :
                   Count(Bucketed, expected[k]) = Count(expected, expected[k])

\* Issues of two analyzers, one without a severity and one with a severity
\* outside the mapping among them, have been put into two buckets.
C1_Witness ==
    /\ pc = "done"
    /\ Len(InputIssues(analysis_results)) = 3
    /\ \E k \in 1..3 : "severity" \notin DOMAIN InputIssues(analysis_results)[k].issue
    /\ "issues" \in DOMAIN analysis_results[1].result
    /\ Len(analysis_results[1].result.issues) = 1
    /\ Len(feedback.issues.critical) = 1
    /\ Len(feedback.issues.medium) = 2

Clamp(x, lo, hi) == IF x < lo THEN lo ELSE IF x > hi THEN hi ELSE x

Deduction ==
    10 * Len(feedback.issues.critical) + 7 * Len(feedback.issues.high)
    + 4 * Len(feedback.issues.medium) + 1 * Len(feedback.issues.low)

\* C2: the score is clamp(100 - (10|critical| + 7|high| + 4|medium| + |low|),
\* 0, 100) of the bucket lists, whatever the summary counts: it is within
\* 0..100, 100 for empty buckets, 0 for a deduction of 100 or more, and 82
\* for two high and one medium.
C2_ScoreIsClampedDeduction ==
    pc = "done" =>
        /\ quality_score = Clamp(100 - Deduction, 0, 100)
        /\ quality_score \in 0..100
        /\ (Len(Bucketed) = 0 => quality_score = 100)
        /\ (Deduction >= 100 => quality_score = 0)
        /\ (/\ Len(feedback.issues.critical) = 0
            /\ Len(feedback.issues.high) = 2
            /\ Len(feedback.issues.medium) = 1
            /\ Len(feedback.issues.low) = 0
            => quality_score = 82)

\* Two high and one medium under a summary that counts no issue score 82.
C2_Witness ==
    /\ pc = "done"
    /\ Len(feedback.issues.critical) = 0
    /\ Len(feedback.issues.high) = 2
    /\ Len(feedback.issues.medium) = 1
    /\ Len(feedback.issues.low) = 0
    /\ feedback.summary.total_issues = 0
    /\ quality_score = 82

\* Whether some input issue's message has one of keywords in it, in any case.
MessageHas(keywords) ==
    \E k \in 1..Len(InputIssues(analysis_results)) :
        LET issue == InputIssues(analysis_results)[k].issue
        IN  /\ "message" \in DOMAIN issue
            /\ \E w \in keywords : contains(lower(issue.message), w)

Optional(cond, x) == IF cond THEN <<x>> ELSE <<>>

PrioritySequence ==
    <<REC_STYLE, REC_REVIEW>>
    \o Optional(Len(feedback.issues.critical) > 0, RecCritical(Len(feedback.issues.critical)))
    \o Optional(Len(feedback.issues.high) > 0, RecHigh(Len(feedback.issues.high)))
    \o Optional(Len(feedback.issues.medium) > 0, RecMedium(Len(feedback.issues.medium)))
    \o Optional(MessageHas({<<"s","e","c","u","r","i","t","y">>, <<"v","u","l","n","e","r","a","b","i","l","i","t","y">>, <<"i","n","j","e","c","t","i","o","n">>, <<"s","q","l">>}),
                REC_SECURITY)
    \o Optional(MessageHas({<<"p","e","r","f","o","r","m","a","n","c","e">>, <<"s","l","o","w">>, <<"i","n","e","f","f","i","c","i","e","n","t">>, <<"m","e","m","o","r","y">>}),
                REC_PERFORMANCE)
    \o Optional(Len(feedback.issues.high) + Len(feedback.issues.medium) > 0, REC_REFACTOR)
    \o Optional(MessageHas({<<"d","o","c","s","t","r","i","n","g">>, <<"d","o","c","u","m","e","n","t","a","t","i","o","n">>, <<"m","i","s","s","i","n","g">>}),
                REC_DOCUMENTATION)

\* C10: the recommendations hold no string twice and are the priority
\* sequence: the two advisories, the critical, high and medium counts, then
\* security, performance, refactoring and documentation, each there exactly
\* when its trigger holds.
C10_RecommendationsInPriorityOrder ==
    FeedbackMade =>
        /\ feedback.recommendations = PrioritySequence
        /\ \A j, k \in 1..Len(feedback.recommendations) :
               j # k => feedback.recommendations[j] # feedback.recommendations[k]

\* Every trigger holds at once: all nine recommendations are given.
C10_Witness ==
    /\ pc = "done"
    /\ Len(feedback.recommendations) = 9
    /\ feedback.recommendations[6] = REC_SECURITY
    /\ feedback.recommendations[9] = REC_DOCUMENTATION

\* What the k-th subprocess.run call did.
RunOf(k) == ToolRuns(calls[k].analyzer)[calls[k].run]

\* The file the k-th call was made for.
FileOf(k) == changed_files[calls[k].file].filename

\* The positions of the files analyze is to analyze, in input order.
ToAnalyze ==
    LET Added(i) == changed_files[i].status \in {"added", "modified"}
    IN  SelectSeq([i \in 1..Len(changed_files) |-> i], Added)

AnalyzeEnded == pc \in {"returned", "raised"}

\* C3: a file whose status is not 'added' or 'modified' is the file of no
\* issue, the tool is never run for it, and the dict analyze returns
\* counts only issues of the other files, in total_issues and in its counters.
C3_SkippedFilesNeverReported ==
    LET skipped == {changed_files[i].filename : i \in
                       {j \in 1..Len(changed_files) :
                            changed_files[j].status \notin {"added", "modified"}}}
        OfOthers(iss) == Cardinality({k \in 1..Len(iss) : iss[k].file \notin skipped})
    IN  /\ \A k \in 1..Len(issues) : issues[k].file \notin skipped
        /\ \A k \in 1..Len(calls) : FileOf(k) \notin skipped
        /\ pc = "returned" =>
               LET value == outcome.value
               IN  /\ \A k \in 1..Len(value.issues) : value.issues[k].file \notin skipped
                   /\ value.total_issues = OfOthers(value.issues)
                   /\ Get(value, "errors", 0) + Get(value, "warnings", 0)
                      + Get(value, "infos", 0) + Get(value, "complexity_issues", 0)
                      <= OfOthers(value.issues)

\* analyze has returned two issues for a sequence of a removed and an added
\* file.
C3_Witness ==
    /\ pc = "returned"
    /\ Len(changed_files) = 2
    /\ changed_files[1].status = "removed"
    /\ changed_files[2].status = "added"
    /\ Len(outcome.value.issues) = 2

NotInstalled ==
    IF analyzer = "flake8" THEN <<"F","l","a","k","e","8"," ","n","o","t"," ","i","n","s","t","a","l","l","e","d"," ","o","r"," ","n","o","t"," ","i","n"," ","P","A","T","H">>
    ELSE IF analyzer = "pylint" THEN <<"P","y","l","i","n","t"," ","n","o","t"," ","i","n","s","t","a","l","l","e","d"," ","o","r"," ","n","o","t"," ","i","n"," ","P","A","T","H">>
    ELSE <<"R","a","d","o","n"," ","n","o","t"," ","i","n","s","t","a","l","l","e","d"," ","o","r"," ","n","o","t"," ","i","n"," ","P","A","T","H">>

BinaryMissingEverywhere ==
    \A i \in 1..Len(ToAnalyze) :
        \E k \in 1..Len(calls) :
            calls[k].file = ToAnalyze[i] /\ RunOf(k).exc = "FileNotFoundError"

\* C4: when the launch of the tool failed with FileNotFoundError for every
\* added or modified file, analyze has returned, and its issues are one per
\* such file, in input order, each of severity 'error' with the adapter's
\* 'not installed or not in PATH' message.
C4_MissingBinaryOneIssuePerFile ==
    AnalyzeEnded /\ BinaryMissingEverywhere =>
        /\ pc = "returned"
        /\ outcome.value.total_issues = Len(ToAnalyze)
        /\ outcome.value.issues =
               [i \in 1..Len(ToAnalyze) |->
                   [file |-> changed_files[ToAnalyze[i]].filename,
                    message |-> NotInstalled,
                    severity |-> <<"e","r","r","o","r">>]]

\* The binary was missing for both files of a sequence.
C4_Witness ==
    /\ pc = "returned"
    /\ Len(ToAnalyze) = 2
    /\ BinaryMissingEverywhere
    /\ Len(outcome.value.issues) = 2

\* C5: when analyze has returned or raised, no temporary file it created
\* exists.
C5_NoTemporaryFileLeft == AnalyzeEnded => tmpfs = {}

\* C6: analyze does not raise; a launch that failed otherwise than by a
\* missing binary left an issue of severity 'error' for its file; and when
\* analyze has returned the tool was run for every added or modified file.
C6_FailureContainedPerFile ==
    /\ pc # "raised"
    /\ \A k \in 1..Len(calls) :
           RunOf(k).exc \notin {"none", "FileNotFoundError"} =>
               \E j \in 1..Len(issues) :
                   issues[j].file = FileOf(k) /\ issues[j].severity = <<"e","r","r","o","r">>
    /\ pc = "returned" =>
           \A i \in 1..Len(ToAnalyze) :
               \E k \in 1..Len(calls) : calls[k].file = ToAnalyze[i]

\* C7: for every run of the tool that wrote to stderr there is an issue of
\* severity 'error' for the file whose message has that text in it,
\* whatever the tool wrote to stdout.
C7_StderrAlwaysReported ==
    \A k \in 1..Len(calls) :
        RunOf(k).exc = "none" /\ Len(RunOf(k).stderr) > 0 =>
            \E j \in 1..Len(issues) :
                /\ issues[j].file = FileOf(k)
                /\ issues[j].severity = <<"e","r","r","o","r">>
                /\ contains(issues[j].message, RunOf(k).stderr)

\* A line of flake8 output that is not row:col:code:text with integers.
BadLine(line) ==
    LET parts == split(line, ":", 3)
    IN  Len(strip(line)) > 0
        /\ (Len(parts) < 4 \/ ~int_ok(parts[1]) \/ ~int_ok(parts[2]))

\* An element of the parsed output without the keys the adapter reads.
BadItem(name, item) ==
    \/ item.t # "obj"
    \/ name = "pylint" /\ FirstMissing(item.d, PylintKeys) # 0
    \/ name = "radon" /\ FirstMissing(item.d, RadonKeys) # 0

\* Output that is there and is not of the format the adapter expects.
Unparsable(name, stdout) ==
    /\ Len(stdout) > 0
    /\ IF name = "flake8"
       THEN \E k \in 1..Len(split(strip(stdout), "\n", -1)) :
                BadLine(split(strip(stdout), "\n", -1)[k])
       ELSE \/ json_loads(stdout).t \notin {"list", "dict"}
            \/ \E k \in 1..Len(Elements(json_loads(stdout))) :
                   BadItem(name, Elements(json_loads(stdout))[k])

\* C8: for every run of the tool whose output is unparsable there is
\* exactly one issue of severity 'error' for the file whose message has
\* the raw output in it.
C8_UnparsableOutputBecomesOneIssue ==
    \A k \in 1..Len(calls) :
        RunOf(k).exc = "none" /\ Unparsable(calls[k].analyzer, RunOf(k).stdout) =>
            Cardinality({j \in 1..Len(issues) :
                            /\ issues[j].file = FileOf(k)
                            /\ issues[j].severity = <<"e","r","r","o","r">>
                            /\ contains(issues[j].message, RunOf(k).stdout)}) = 1

\* The files the tool of adapter name was run for, in the order of the runs.
FilesRunBy(name) ==
    LET Own(c) == c.analyzer = name
        own == SelectSeq(calls, Own)
    IN  [k \in 1..Len(own) |-> own[k].file]

IsErrorRecord(result) == DOMAIN result = {"error"}

\* C9: generate_feedback is given one result for each of flake8, pylint
\* and radon, in that order; the result of an adapter whose analyze raised
\* is {'error': str(e)} and the result of any other is the dict it returned,
\* with its tool run once for every added or modified file; review_pr
\* raises only before an adapter is called, and ends with a feedback and a
\* score.
C9_OneResultPerAdapter ==
    /\ pc \in {"feedback", "score", "done"} =>
           /\ [k \in 1..Len(analysis_results) |-> analysis_results[k].name]
                  = <<"flake8", "pylint", "radon">>
           /\ \A k \in 1..Len(analysis_results) :
                  LET result == analysis_results[k].result
                  IN  \/ IsErrorRecord(result)
                      \/ /\ {"total_issues", "issues"} \subseteq DOMAIN result
                         /\ FilesRunBy(analysis_results[k].name) = ToAnalyze
    /\ pc \in {"analyzers", "feedback"} /\ Len(analysis_results) > 0 =>
           analysis_results[Len(analysis_results)] =
               [name |-> analyzer,
                result |-> IF outcome.kind = "raised" THEN [error |-> outcome.msg]
                           ELSE outcome.value]
    /\ pc = "error" => analyzer = "none" /\ calls = <<>> /\ created = 0
    /\ pc = "done" =>
           /\ DOMAIN feedback = {"issues", "recommendations", "summary"}
           /\ quality_score \in 0..100

\* The analyze of flake8 raised; pylint and radon were still run on the
\* file, pylint reported an issue, and the review ended with a score.
C9_Witness ==
    /\ pc = "done"
    /\ IsErrorRecord(analysis_results[1].result)
    /\ ~IsErrorRecord(analysis_results[2].result)
    /\ Len(analysis_results[2].result.issues) = 1
    /\ FilesRunBy("radon") = <<1>>
    /\ quality_score = 90

\* The input issues whose message has a security keyword in it, in any case.
SecurityMatches ==
    {k \in 1..Len(InputIssues(analysis_results)) :
        LET issue == InputIssues(analysis_results)[k].issue
        IN  /\ "message" \in DOMAIN issue
            /\ \E w \in {<<"s","e","c","u","r","i","t","y">>, <<"v","u","l","n","e","r","a","b","i","l","i","t","y">>, <<"i","n","j","e","c","t","i","o","n">>, <<"s","q","l">>} :
                   contains(lower(issue.message), w)}

\* C11: the security-review recommendation is in the report once when some
\* issue message of some analyzer has 'security', 'vulnerability',
\* 'injection' or 'sql' in it in any case, however many messages have, and
\* is not in the report when none has.
C11_SecurityRecommendationOnce ==
    FeedbackMade =>
        Count(feedback.recommendations, REC_SECURITY)
            = IF SecurityMatches # {} THEN 1 ELSE 0

\* Three issues with a security keyword, of more than one analyzer, one of
\* them with the keyword in upper case only: one recommendation.
C11_Witness ==
    /\ pc = "done"
    /\ Cardinality(SecurityMatches) = 3
    /\ \E k \in SecurityMatches :
           InputIssues(analysis_results)[k].issue.message = <<"B","a","d"," ","S","Q","L">>
    /\ \E j, k \in SecurityMatches :
           InputIssues(analysis_results)[j].analyzer
               # InputIssues(analysis_results)[k].analyzer
    /\ Count(feedback.recommendations, REC_SECURITY) = 1

\* Every adapter returned a result, and no result has an issue.
AllClean ==
    /\ Len(analysis_results) = Len(Analyzers)
    /\ \A k \in 1..Len(analysis_results) :
           /\ "issues" \in DOMAIN analysis_results[k].result
           /\ Len(analysis_results[k].result.issues) = 0

\* C12: a review whose adapters all returned no issue reports total_issues
\* 0, four empty buckets, the two fixed recommendations and nothing else,
\* and scores 100; and on an empty sequence of changed files every adapter
\* returns total_issues 0 and no issue, and no tool is run.
C12_CleanReviewIsClean ==
    /\ pc \in {"feedback", "score", "done"} /\ changed_files = <<>> =>
           /\ calls = <<>>
           /\ AllClean
           /\ \A k \in 1..Len(analysis_results) :
                  analysis_results[k].result.total_issues = 0
    /\ pc \in {"score", "done"} /\ AllClean =>
           /\ feedback.summary.total_issues = 0
           /\ feedback.issues = EmptyBuckets
           /\ feedback.recommendations = <<REC_STYLE, REC_REVIEW>>
    /\ pc = "done" /\ AllClean => quality_score = 100

\* A modified file on which flake8, pylint and radon were run and found
\* nothing: the review ended with a score of 100.
C12_Witness ==
    /\ pc = "done"
    /\ Len(changed_files) > 0
    /\ Len(calls) = Len(Analyzers)
    /\ AllClean
    /\ feedback.recommendations = <<REC_STYLE, REC_REVIEW>>
    /\ quality_score = 100

\* An issue made from a finding of the tool has a line; the issues the
\* adapter makes up for a failure have none.
Synthetic(issue) == "line" \notin DOMAIN issue

\* C13: the dict analyze returns has the length of its 'issues' list as
\* total_issues, that list is the list analyze collected, and no step of
\* analyze takes an issue out of the list or changes one: the issues of
\* every file, synthetic ones included, are in it.
C13_TotalIssuesIsLength ==
    /\ [](pc = "returned" =>
             /\ outcome.value.total_issues = Len(outcome.value.issues)
             /\ outcome.value.issues = issues)
    /\ [][/\ Len(issues') >= Len(issues)
          /\ SubSeq(issues', 1, Len(issues)) = issues]_vars

\* analyze returned three issues or more of two files, a synthetic one of
\* the first file and a finding of the second among them.
C13_Witness ==
    /\ pc = "returned"
    /\ outcome.value.total_issues >= 3
    /\ \E j, k \in 1..Len(issues) :
           /\ Synthetic(issues[j])
           /\ ~Synthetic(issues[k])
           /\ issues[j].file = changed_files[1].filename
           /\ issues[k].file = changed_files[2].filename

\* How many of the issues collected so far are findings of the tool.
Findings == Cardinality({k \in 1..Len(issues) : ~Synthetic(issues[k])})

\* The counters of the running adapter, summed.
Counted ==
    IF analyzer = "radon" THEN total_complexity_issues
    ELSE IF analyzer = "pylint" THEN total_errors + total_warnings + total_infos
    ELSE total_errors + total_warnings

\* C14: the counters count findings only.  Their sum never exceeds the
\* number of non-synthetic issues, for flake8 and radon it equals that
\* number, a step of analyze that adds no finding (it adds nothing, or
\* synthetic issues only) changes no counter, and the returned dict carries
\* the counters as they stand.
C14_CountersFromFindingsOnly ==
    /\ [](/\ Counted <= Findings
          /\ analyzer \in {"flake8", "radon"} => Counted = Findings
          /\ pc = "returned" =>
                 /\ analyzer = "flake8" =>
                        /\ outcome.value.errors = total_errors
                        /\ outcome.value.warnings = total_warnings
                 /\ analyzer = "pylint" =>
                        /\ outcome.value.errors = total_errors
                        /\ outcome.value.warnings = total_warnings
                        /\ outcome.value.infos = total_infos
                 /\ analyzer = "radon" =>
                        outcome.value.complexity_issues = total_complexity_issues)
    /\ [][Findings' = Findings =>
              UNCHANGED <<total_errors, total_warnings, total_infos,
                          total_complexity_issues>>]_vars

\* analyze returned a finding that was counted and two synthetic issues
\* that were not.
C14_Witness ==
    /\ pc = "returned"
    /\ Len(issues) = 3
    /\ Findings = 1
    /\ Counted = 1

\* The sum over the results of the number each has under key, 0 if it has
\* none.
RECURSIVE SumOf(_, _)
SumOf(results, key) ==
    IF Len(results) = 0 THEN 0
    ELSE Get(Head(results).result, key, 0) + SumOf(Tail(results), key)

\* C15: the summary is the adapters' own bookkeeping: total_issues is the
\* sum of their total_issues, by_severity.critical, high and medium are the
\* sums of their 'errors', 'warnings' and 'infos' (0 for an adapter without
\* the counter), and analyzers_used names every adapter of the results,
\* those with an error record too.
C15_SummaryFromAdapterCounters ==
    FeedbackMade =>
        /\ feedback.summary.total_issues = SumOf(analysis_results, "total_issues")
        /\ feedback.summary.by_severity.critical = SumOf(analysis_results, "errors")
        /\ feedback.summary.by_severity.high = SumOf(analysis_results, "warnings")
        /\ feedback.summary.by_severity.medium = SumOf(analysis_results, "infos")
        /\ feedback.summary.analyzers_used =
               [k \in 1..Len(analysis_results) |-> analysis_results[k].name]

\* Adapters that count an error each although no issue is in the critical
\* bucket: the summary has three critical, the buckets none.
C15_Witness ==
    /\ pc = "done"
    /\ feedback.summary.by_severity.critical = 3
    /\ Len(feedback.issues.critical) = 0
    /\ feedback.summary.total_issues = 3
    /\ Len(feedback.summary.analyzers_used) = 3

\* Severity strings of the adapters, in other cases, and unknown ones.
SeveritySamples ==
    {<<"e","r","r","o","r">>, <<"w","a","r","n","i","n","g">>, <<"i","n","f","o">>, <<"E","R","R","O","R">>, <<"W","a","r","n","i","n","g">>, <<"I","N","F","O">>, <<"l","o","w">>,
     <<"L","O","W">>, <<"c","r","i","t","i","c","a","l">>, <<"f","a","t","a","l">>, <<"c","o","n","v","e","n","t","i","o","n">>, <<>>}

\* How many input issues have severity s once lowered; an issue without
\* severity has 'info'.
WithSeverity(s) ==
    Cardinality({k \in 1..Len(InputIssues(analysis_results)) :
        lower(Get(InputIssues(analysis_results)[k].issue, "severity", <<"i","n","f","o">>)) = s})

\* C16: the normalizer maps error to critical, warning to high, info to
\* medium and no string to low; in every report the critical bucket has
\* the issues of severity error, the high bucket those of severity warning,
\* the medium bucket all others, the low bucket is empty and
\* summary.by_severity.low is 0.
C16_NothingIsLow ==
    /\ map_severity(<<"e","r","r","o","r">>) = "critical"
    /\ map_severity(<<"w","a","r","n","i","n","g">>) = "high"
    /\ map_severity(<<"i","n","f","o">>) = "medium"
    /\ \A s \in SeveritySamples : map_severity(s) \in {"critical", "high", "medium"}
    /\ FeedbackMade =>
           /\ feedback.issues.low = <<>>
           /\ feedback.summary.by_severity.low = 0
           /\ Len(feedback.issues.critical) = WithSeverity(<<"e","r","r","o","r">>)
           /\ Len(feedback.issues.high) = WithSeverity(<<"w","a","r","n","i","n","g">>)
           /\ Len(feedback.issues.medium) =
                  Len(InputIssues(analysis_results))
                  - WithSeverity(<<"e","r","r","o","r">>) - WithSeverity(<<"w","a","r","n","i","n","g">>)

\* A report on an issue of severity info, one of an unknown severity and
\* one without severity: three in the medium bucket, none in low.
C16_Witness ==
    /\ pc = "done"
    /\ WithSeverity(<<"i","n","f","o">>) = 2
    /\ WithSeverity(<<"f","a","t","a","l">>) = 1
    /\ Len(feedback.issues.medium) = 3
    /\ feedback.issues.low = <<>>
    /\ feedback.summary.by_severity.low = 0

\* Codes of every family of flake8, and codes of none.
CodeSamples ==
    {<<"E","5","0","1">>, <<"E","9">>, <<"F","4","0","1">>, <<"F","4">>, <<"W","6","0","5">>, <<"W","6">>, <<"C","9","0","1">>, <<"C","9">>,
     <<"N","8","0","2">>, <<"D","1","0","0">>, <<"e","5","0","1">>, <<"1","E">>, <<" ","E","1">>, <<>>}

\* The severity the first character of a flake8 code stands for.
SeverityOfCode(code) ==
    IF Len(code) > 0 /\ code[1] \in {"E", "F"} THEN <<"e","r","r","o","r">>
    ELSE IF Len(code) > 0 /\ code[1] \in {"W", "C"} THEN <<"w","a","r","n","i","n","g">>
    ELSE <<"i","n","f","o">>

\* The positions of the findings of severity 'error' among the issues.
ErrorFindings ==
    {k \in 1..Len(issues) : ~Synthetic(issues[k]) /\ issues[k].severity = <<"e","r","r","o","r">>}

\* C17: a flake8 code starting with E or F has severity 'error', one
\* starting with W or C 'warning', any other 'info', and is counted as an
\* error exactly when it starts with E or F; every finding of flake8 has the
\* severity of its code, and 'errors' is the number of findings of severity
\* 'error'.
C17_Flake8SeverityByCodeFamily ==
    /\ \A code \in CodeSamples :
           /\ Flake8_get_severity(code) = SeverityOfCode(code)
           /\ Flake8_is_error(code) <=> SeverityOfCode(code) = <<"e","r","r","o","r">>
    /\ analyzer = "flake8" =>
           /\ \A k \in 1..Len(issues) :
                  ~Synthetic(issues[k]) =>
                      issues[k].severity = SeverityOfCode(issues[k].code)
           /\ total_errors = Cardinality(ErrorFindings)
           /\ pc = "returned" => outcome.value.errors = Cardinality(ErrorFindings)

\* flake8 returned an F finding, a synthetic issue of severity 'error' and
\* a finding that is no error: 'errors' is 1.
C17_Witness ==
    /\ pc = "returned"
    /\ analyzer = "flake8"
    /\ \E k \in ErrorFindings : issues[k].code = <<"F","4">>
    /\ \E k \in 1..Len(issues) : Synthetic(issues[k])
    /\ \E k \in 1..Len(issues) :
           ~Synthetic(issues[k]) /\ issues[k].severity # <<"e","r","r","o","r">>
    /\ outcome.value.errors = 1

\* Native categories of pylint, and strings that are none.
CategorySamples ==
    {<<"e","r","r","o","r">>, <<"w","a","r","n","i","n","g">>, <<"c","o","n","v","e","n","t","i","o","n">>, <<"r","e","f","a","c","t","o","r">>, <<"i","n","f","o">>, <<"f","a","t","a","l">>,
     <<"E","r","r","o","r">>, <<"W","A","R","N","I","N","G">>, <<>>}

\* The records of the k-th run's output that pylint's loop converted: those
\* in front of the first record it could not read.
Converted(k) ==
    LET run == RunOf(k)
        v == json_loads(run.stdout)
        items == Elements(v)
        good == {n \in 0..Len(items) : \A j \in 1..n : ~BadItem("pylint", items[j])}
    IN  IF run.exc # "none" \/ Len(run.stdout) = 0 \/ v.t \notin {"list", "dict"}
        THEN <<>>
        ELSE SubSeq(items, 1, CHOOSE n \in good : \A m \in good : m <= n)

\* How many records of native category c the first k runs had converted.
RECURSIVE Native(_, _)
Native(c, k) ==
    IF k = 0 THEN 0
    ELSE Native(c, k - 1)
         + Cardinality({j \in 1..Len(Converted(k)) : Converted(k)[j].d.category = c})

\* How many findings of severity s are among the issues.
FindingsOfSeverity(s) ==
    Cardinality({k \in 1..Len(issues) : ~Synthetic(issues[k]) /\ issues[k].severity = s})

\* C18: pylint's severity is 'error' for category error, 'warning' for
\* warning and 'info' for any other; errors, warnings and infos count the
\* records whose native category is error, warning and info, so the
\* findings of severity 'info' that are no 'info' records are in no counter.
C18_PylintCountersByNativeCategory ==
    /\ \A c \in CategorySamples :
           Pylint_get_severity(c) =
               IF c = <<"e","r","r","o","r">> THEN <<"e","r","r","o","r">>
               ELSE IF c = <<"w","a","r","n","i","n","g">> THEN <<"w","a","r","n","i","n","g">>
               ELSE <<"i","n","f","o">>
    /\ analyzer = "pylint" =>
           /\ total_errors = Native(<<"e","r","r","o","r">>, Len(calls))
           /\ total_warnings = Native(<<"w","a","r","n","i","n","g">>, Len(calls))
           /\ total_infos = Native(<<"i","n","f","o">>, Len(calls))
           /\ FindingsOfSeverity(<<"e","r","r","o","r">>) = Native(<<"e","r","r","o","r">>, Len(calls))
           /\ FindingsOfSeverity(<<"w","a","r","n","i","n","g">>) = Native(<<"w","a","r","n","i","n","g">>, Len(calls))
           /\ FindingsOfSeverity(<<"i","n","f","o">>) =
                  Findings - Native(<<"e","r","r","o","r">>, Len(calls)) - Native(<<"w","a","r","n","i","n","g">>, Len(calls))
           /\ pc = "returned" =>
                  /\ outcome.value.errors = total_errors
                  /\ outcome.value.warnings = total_warnings
                  /\ outcome.value.infos = total_infos

\* pylint returned a convention message and an info message: two findings
\* of severity 'info', and infos is 1.
C18_Witness ==
    /\ pc = "returned"
    /\ analyzer = "pylint"
    /\ FindingsOfSeverity(<<"i","n","f","o">>) = 2
    /\ Native(<<"c","o","n","v","e","n","t","i","o","n">>, Len(calls)) = 1
    /\ outcome.value.infos = 1

\* The code units of the k-th run: the records of an output that is a list
\* of records with complexity, name, loc, lloc and cc.
UnitsOf(k) ==
    LET run == RunOf(k)
    IN  IF run.exc = "none" /\ Len(run.stdout) > 0 /\ ~Unparsable("radon", run.stdout)
        THEN Elements(json_loads(run.stdout))
        ELSE <<>>

\* The issues of severity 'warning' of the file of the k-th run, in order.
WarningsOf(k) ==
    LET OfFile(issue) == issue.file = FileOf(k) /\ issue.severity = <<"w","a","r","n","i","n","g">>
    IN  SelectSeq(issues, OfFile)

\* The units of the k-th run that score more than 5, in order.
FlaggedOf(k) ==
    LET Above(item) == item.d.complexity > 5
    IN  SelectSeq(UnitsOf(k), Above)

RECURSIVE AloneFrom(_, _, _, _, _)
AloneFrom(t, th, i, j, st) ==
    IF i > Len(th.files)
    THEN [kind |-> "returned", value |-> AnalyzerResult(th.analyzer, st)]
    ELSE IF th.files[i].status \notin {"added", "modified"}
    THEN AloneFrom(t, th, i + 1, j, st)
    ELSE IF j > Len(th.temps) THEN Pending
    ELSE IF th.temps[j] = "create_fails" THEN [kind |-> "raised", msg |-> NO_SPACE]
    ELSE IF th.temps[j] = "write_fails" THEN [kind |-> "raised", msg |-> CANNOT_ENCODE]
    ELSE AloneFrom(t, th, i + 1, j + 1,
                   AnalyzerTry(th.analyzer, st, th.files[i].filename,
                               ToolRuns(th.analyzer)[ToolOn(Content(t, i))]))

Ended(t) == threads[t].pc \in {"returned", "raised"}

\* C20: in every interleaving of two analyze calls, a call that has ended
\* has the outcome it has when run alone; the tool of a call only ever
\* reads a file the call wrote, for the file it is analyzing, and no file
\* twice; a call only removes files it wrote; and while a call is between
\* writing its file and removing it, the file is there, holds what the
\* call wrote, and is the file of no other call.
C20_ConcurrentCallsAreIndependent ==
    \A t \in DOMAIN threads :
        LET th == threads[t]
        IN  /\ Ended(t) => th.outcome = AloneFrom(t, th, 1, 1, NoIssues)
            /\ \A k \in 1..Len(th.reads) :
                   /\ th.reads[k].owner = t
                   /\ \A j \in 1..Len(th.reads) :
                          j # k => th.reads[j].file # th.reads[k].file
            /\ \A k \in 1..Len(th.removed) :
                   /\ th.removed[k].owner = t
                   /\ th.removed[k].file = th.reads[k].file
            /\ th.pc \in {"try", "finally"} =>
                   /\ th.tmp_filename \in DOMAIN disk
                   /\ disk[th.tmp_filename] = Content(t, th.idx)
                   /\ \A u \in DOMAIN threads :
                          u # t /\ threads[u].pc \in {"try", "finally"} =>
                              threads[u].tmp_filename # th.tmp_filename

\* Two calls of the same adapter class on two file lists have both
\* returned after their tools read files that existed side by side, the
\* first with an issue and the second with two.
C20_Witness ==
    /\ Ended(1) /\ Ended(2)
    /\ threads[1].analyzer = threads[2].analyzer
    /\ threads[1].files # threads[2].files
    /\ threads[1].outcome.kind = "returned"
    /\ threads[2].outcome.kind = "returned"
    /\ Len(threads[1].reads) = 1
    /\ Len(threads[2].reads) = 2
    /\ threads[1].reads[1].name # threads[2].reads[1].name
    /\ threads[1].reads[1].name = threads[2].reads[2].name
    /\ threads[1].outcome.value.total_issues = 1
    /\ threads[2].outcome.value.total_issues = 1

\* The positions of the files the tool was launched for, in launch order.
Launched == [k \in 1..Len(calls) |-> calls[k].file]

\* C21: within one analyze call at most one temporary file exists at any
\* time; the tool is launched for added and modified files only, in input
\* order and never twice for a file, each time on a temporary file no
\* earlier launch had; whenever the loop turns to the next file the
\* temporary file of the last one is gone; and when analyze has ended the
\* tool was launched once for every added or modified file.
C21_PerFileProtocolOrdered ==
    /\ Cardinality(tmpfs) <= 1
    /\ \A k \in 1..Len(calls) :
           /\ changed_files[calls[k].file].status \in {"added", "modified"}
           /\ \A j \in 1..(k - 1) :
                  /\ calls[j].file < calls[k].file
                  /\ calls[j].tmp # calls[k].tmp
    /\ pc = "for" => tmpfs = {}
    /\ pc \in {"try", "finally"} => tmpfs = {tmp_filename}
    /\ AnalyzeEnded => Launched = ToAnalyze /\ tmpfs = {}

\* Once a tool hangs, control stays in subprocess.run.
HangIsForever == [][pc = "blocked" => pc' = "blocked"]_vars

\* While a tool hangs, the file it was run on has no issue, no later file
\* has a temporary file or an issue, and the adapter and those after it have
\* no result.
HangBlocksEverything ==
    pc = "blocked" =>
        /\ \A k \in 1..Len(issues) :
               \A i \in idx..Len(changed_files) :
                   issues[k].file # changed_files[i].filename
        /\ \A k \in 1..Len(calls) :
               calls[k].analyzer = analyzer => calls[k].file < idx
        /\ outcome = Pending
        /\ tmp_filename \in tmpfs
        /\ Len(analysis_results) < Len(Analyzers)
        /\ \A k \in 1..Len(analysis_results) : analysis_results[k].name # analyzer
        /\ feedback = None
        /\ quality_score = None

\* An analyze call that has been entered ends or hangs.
AnalyzeEndsOrHangs == (pc = "for") ~> (pc \in {"returned", "raised", "blocked"})

\* The for loop takes the files one by one, each once.
OneByOne == [][idx' = idx \/ idx' = idx + 1 \/ (pc = "analyzers" /\ idx' = 1)]_vars

\* C22: analyze has no timeout.  When every tool exits, an analyze call
\* ends, and has then been through every changed file, once each; when a
\* tool hangs, analyze stays in that call for ever, with no issue for the
\* file, and no later file and no later adapter is analyzed.
C22_NoTimeout ==
    /\ AnalyzeEndsOrHangs
    /\ OneByOne
    /\ [](AnalyzeEnded => idx = Len(changed_files) + 1)
    /\ HangIsForever
    /\ [](HangBlocksEverything)


\* C23: in the report of a review, summary.total_issues is the number of
\* records in the four buckets together, whatever the per-severity counters
\* of the summary say and whether or not an adapter left an error record.
C23_TotalIssuesIsBucketTotal ==
    FeedbackMade => feedback.summary.total_issues = Len(Bucketed)

\* A report made from an error record and from issues, whose critical
\* counter is not the size of the critical bucket.
C23_Witness ==
    /\ pc = "done"
    /\ \E k \in 1..Len(analysis_results) : IsErrorRecord(analysis_results[k].result)
    /\ feedback.summary.total_issues = 2
    /\ feedback.summary.by_severity.critical # Len(feedback.issues.critical)


\* The stage of review_pr a position belongs to: the validation, the fetch,
\* the loop over the analyzers, the feedback, the score, the return.
Stage ==
    [p \in {"validate", "fetch", "analyzers", "for", "try", "finally", "returned",
            "raised", "feedback", "score", "done"} |->
        CASE p = "validate" -> 1
          [] p = "fetch" -> 2
          [] p = "feedback" -> 4
          [] p = "score" -> 5
          [] p = "done" -> 6
          [] OTHER -> 3]

\* What each stage has in hand: nothing is fetched before the fetch is
\* over, no adapter is invoked before the analyzers' loop, the results are
\* those of the first adapters in their order, the feedback exists from
\* the feedback stage on and is made from all three results, and the score
\* exists at the end and is computed from that feedback.
StagesInHand ==
    /\ server_type \notin Fetchers => pc \in {"validate", "error"}
    /\ pc \in {"validate", "fetch", "error"} =>
           /\ changed_files = <<>>
           /\ analyzer = "none"
           /\ calls = <<>>
           /\ analysis_results = <<>>
           /\ feedback = None
           /\ quality_score = None
    /\ Len(analysis_results) <= Len(Analyzers)
    /\ \A k \in 1..Len(analysis_results) : analysis_results[k].name = Analyzers[k]
    /\ pc \in {"for", "try", "finally", "returned", "raised"} =>
           analyzer = Analyzers[Len(analysis_results) + 1]
    /\ \A k \in 1..Len(calls) : \A j \in 1..Len(calls) :
           (calls[k].analyzer = calls[j].analyzer /\ calls[k].file = calls[j].file) => k = j
    /\ pc \in {"analyzers", "for", "try", "finally", "returned", "raised", "feedback"} =>
           feedback = None /\ quality_score = None
    /\ pc \in {"feedback", "score", "done"} => Len(analysis_results) = Len(Analyzers)
    /\ pc \in {"score", "done"} => feedback = generate_feedback(analysis_results)
    /\ pc = "score" => quality_score = None
    /\ pc = "done" => quality_score = calculate_quality_score(feedback)

\* What a step may do: a raise out of review_pr is the end; otherwise the
\* stage stays or becomes the next one; the files change in the fetch only,
\* an adapter is entered from the head of the loop only and it is the next
\* one, a result is stored only when an analyze call has ended and it is
\* that adapter's, the feedback is made in the feedback stage only.
StagesInOrder ==
    /\ pc # "error"
    /\ pc' = "error" => pc \in {"validate", "fetch"}
    /\ pc' # "error" => Stage[pc'] \in {Stage[pc], Stage[pc] + 1}
    /\ changed_files' # changed_files => pc = "fetch"
    /\ pc = "fetch" => pc' \in {"analyzers", "error"}
    /\ analyzer' # analyzer =>
           /\ pc = "analyzers"
           /\ analyzer' = Analyzers[Len(analysis_results) + 1]
    /\ pc' = "for" /\ pc = "analyzers" => idx' = 1 /\ analyzer' \notin
           {analysis_results[k].name : k \in 1..Len(analysis_results)}
    /\ analysis_results' # analysis_results =>
           /\ pc \in {"returned", "raised"}
           /\ Len(analysis_results') = Len(analysis_results) + 1
           /\ analysis_results'[Len(analysis_results')].name = analyzer
    /\ feedback' # feedback => pc = "feedback"
    /\ pc # "score" => UNCHANGED quality_score

\* C24: review_pr goes through validation, fetch, analyzers, feedback and
\* score in that order and a raise out of it is the end.  An unsupported
\* server_type raises before any fetch, a failing fetch raises before any
\* adapter is invoked; otherwise the files are fetched once, each adapter
\* is invoked once, in order, on those files, the feedback is made once
\* from all three results and the score is computed from that feedback.
C24_StagesInFixedOrder == [](StagesInHand) /\ [][StagesInOrder]_vars

\* A review that went through every stage: files were fetched, each of the
\* three tools was launched, and the score is below the maximum.
C24_Witness ==
    /\ pc = "done"
    /\ server_type \in Fetchers
    /\ changed_files # <<>>
    /\ Len(calls) = Len(Analyzers)
    /\ quality_score < max_possible_score

====
